---- MODULE Spec2Model ----
(***************************************************************************)
(* A model of the QTM node: the blockchain engine (core/blockchain.py,     *)
(* core/block.py, core/transaction.py) driven by the threads of the P2P    *)
(* node (node.py) and of the mining worker (app.py).                       *)
(*                                                                         *)
(* SHA-256 is modelled as a collision-free hash: a digest is the tuple of  *)
(* the fields that were hashed.  The hex digits of a digest are not        *)
(* modelled; only the number of leading '0' digits is, as a function of    *)
(* the digest (LeadingZeros).  Amounts are in tenths of a coin.            *)
(***************************************************************************)
EXTENDS Integers, Sequences, FiniteSets, TLC

\* ------------------------------------------------------------------ bounds
MaxChain == 3          \* blocks a chain may hold, genesis included
MaxPending == 2        \* transactions the pending pool may hold
MaxTime == 4           \* last value of the wall clock: a message or a mining round per tick
NumHandlers == 2       \* peer/API handler threads besides the miner

\* ------------------------------------------------- configuration, constants
base_difficulty == 1
difficulty_interval == 2
mining_reward == 102
TwoHours == 7200
MedianSpan == 11

HashLen == base_difficulty + MaxChain     \* digits of a digest that are modelled

Max(a, b) == IF a >= b THEN a ELSE b

\* ------------------------------------------------------------- identities
MinerAddr == "M"       \* reward address of the local miner
PeerAddr == "P"        \* an address held by a remote party
PeerKey == "kP"        \* the remote party's key pair
LocalKey == "kM"       \* the local wallet's key pair

\* Transaction.pubkey_to_address: Base58Check(RIPEMD160(SHA256(pubkey)))
pubkey_to_address(k) ==
  IF k = PeerKey THEN PeerAddr ELSE IF k = LocalKey THEN MinerAddr ELSE "?"

\* ecdsa sign / verify: a signature is valid for exactly the key and message
\* it was made with
Sign(k, msg) == <<k, msg>>
BadSig == <<"none", <<>>>>
ecdsa_verify(k, sig, msg) == sig = <<k, msg>>

\* the marker of a spent output (None in utxo_set)
Spent == [address |-> "None", amount |-> 0]

\* ------------------------------------------------------------ transactions
\* Transaction.calculate_hash: the digest of inputs without signatures,
\* outputs and timestamp
InputsClean(inputs) ==
  [i \in 1..Len(inputs) |->
     [txid |-> inputs[i].txid, vout |-> inputs[i].vout, pubkey |-> inputs[i].pubkey]]

tx_calculate_hash(inputs, outputs, timestamp) ==
  <<InputsClean(inputs), outputs, timestamp>>

\* Transaction(...) with txid None: __post_init__ computes the txid
Transaction(inputs, outputs, timestamp) ==
  [inputs |-> inputs, outputs |-> outputs, timestamp |-> timestamp,
   txid |-> tx_calculate_hash(inputs, outputs, timestamp)]

\* Transaction(...) with a txid given (as every transaction read off the wire)
TransactionWithId(inputs, outputs, timestamp, txid) ==
  [inputs |-> inputs, outputs |-> outputs, timestamp |-> timestamp, txid |-> txid]

\* outputs[vout] of a Python list: a negative index counts from the end
PyIndex(outputs, vout) == IF vout >= 0 THEN vout + 1 ELSE Len(outputs) + vout + 1

\* Transaction.verify, the loop over the inputs from input i on: "True" and
\* "False" are its return values, "raise" is the IndexError of outputs[vout]
\* for a vout below -len(outputs)
RECURSIVE VerifyFrom(_, _, _)
VerifyFrom(tx, utxo, i) ==
  IF i > Len(tx.inputs) THEN "True"
  ELSE LET inp == tx.inputs[i]
           message == tx_calculate_hash(tx.inputs, tx.outputs, tx.timestamp)
       IN IF inp.signature = BadSig THEN "False"
          ELSE IF inp.txid \notin DOMAIN utxo \/ inp.vout >= Len(utxo[inp.txid]) THEN "False"
          ELSE IF inp.vout < 0 - Len(utxo[inp.txid]) THEN "raise"
          ELSE LET ref_out == utxo[inp.txid][PyIndex(utxo[inp.txid], inp.vout)]
               IN IF ref_out = Spent THEN "False"
                  ELSE IF pubkey_to_address(inp.pubkey) # ref_out.address THEN "False"
                  ELSE IF ~ecdsa_verify(inp.pubkey, inp.signature, message) THEN "False"
                  ELSE VerifyFrom(tx, utxo, i + 1)

\* Transaction.verify returns True
verify(tx, utxo) == VerifyFrom(tx, utxo, 1) = "True"

\* ------------------------------------------------------------------ blocks
\* Block.calculate_merkle_root: pairwise folding with the last digest of an
\* odd level duplicated.  The root is represented by the leaves that the
\* folding consumed, in order (a level of odd length repeats its last node).
RECURSIVE MerkleLeaves(_)
MerkleLeaves(level) ==
  IF Len(level) <= 1 THEN (IF Len(level) = 0 THEN <<>> ELSE level[1])
  ELSE LET padded == IF Len(level) % 2 # 0 THEN Append(level, level[Len(level)]) ELSE level
           next == [i \in 1..(Len(padded) \div 2) |-> padded[2 * i - 1] \o padded[2 * i]]
       IN MerkleLeaves(next)

calculate_merkle_root(txs) ==
  IF Len(txs) = 0 THEN <<>>
  ELSE LET leaves == [i \in 1..Len(txs) |-> <<txs[i].txid>>]
           first == IF Len(leaves) % 2 # 0 THEN Append(leaves, leaves[Len(leaves)]) ELSE leaves
       IN MerkleLeaves(first)

\* Block.calculate_hash: the digest of the header; transactions are not in it
calculate_hash(b) ==
  <<b.index, b.timestamp, b.merkle_root, b.previous_hash, b.nonce>>

\* The number of leading '0' hex digits of a digest.  A header digest is a
\* 5-tuple; <<z>> stands for a hex string with z leading zeros that is the
\* digest of no header; <<>> is the string '0' (genesis previous_hash).
\* Every count from 0 to HashLen is taken by two nonces in a row, so a search
\* can need several iterations.
LeadingZeros(h) ==
  IF Len(h) = 5
  THEN ((h[5] + 2 * h[1] + 3 * h[2] + Len(h[3])) % (2 * (HashLen + 1))) \div 2
  ELSE IF Len(h) = 1 THEN h[1]
  ELSE 1

\* hash.startswith('0' * d)
startswith_zeros(h, d) == LeadingZeros(h) >= d

\* Block(...) with hash and merkle_root None: __post_init__ computes both
Block(index, timestamp, txs, previous_hash, nonce) ==
  LET mr == calculate_merkle_root(txs)
      hdr == [index |-> index, timestamp |-> timestamp, merkle_root |-> mr,
              previous_hash |-> previous_hash, nonce |-> nonce]
  IN [index |-> index, timestamp |-> timestamp, transactions |-> txs,
      previous_hash |-> previous_hash, nonce |-> nonce,
      hash |-> calculate_hash(hdr), merkle_root |-> mr]

WithNonce(b, n) == [b EXCEPT !.nonce = n, !.hash = calculate_hash([b EXCEPT !.nonce = n])]

\* Block.mine_block: the first nonce, counting up from the block's own, whose
\* digest has `d` leading zeros
mine_block(b, d) ==
  LET ok(n) == startswith_zeros(WithNonce(b, n).hash, d)
      n0 == CHOOSE n \in b.nonce..(b.nonce + 2 * HashLen + 1) :
              /\ ok(n)
              /\ \A m \in b.nonce..(n - 1) : ~ok(m)
  IN IF startswith_zeros(b.hash, d) THEN b ELSE WithNonce(b, n0)

GenesisPrev == <<>>

\* ------------------------------------------------------------------- state
VARIABLES
  chain,                 \* Blockchain.chain
  utxo_set,              \* Blockchain.utxo_set: txid -> outputs (Spent for None)
  pending_transactions,  \* Blockchain.pending_transactions
  seen_blocks,           \* P2PNode.seen_blocks
  seen_transactions,     \* P2PNode.seen_transactions
  lock,                  \* P2PNode.lock: the set of threads holding it
  now,                   \* time.time()
  pc,                    \* where each thread stands
  local,                 \* each thread's local block or candidate chain
  mining_cancel,         \* Blockchain.mining_cancel
  outbox,                \* what the node has broadcast: <<message type, hash or txid>>
  net_chain,             \* a network of nodes: each node's Blockchain.chain
  net_peers,             \* each node's P2PNode.peers
  net_seen,              \* each node's P2PNode.seen_blocks
  wire,                  \* the messages sent and not yet delivered
  peers,                 \* P2PNode.peers of the single node
  sent,                  \* what broadcasts have delivered: <<peer, message type, hash or txid>>
  conn_open,             \* whether the socket that a handler thread serves is open
  conn_state,            \* a socket opened by connect_to_peer: "none", "open", "closed"
  conn_out,              \* frames written by the connecting side and not yet read
  conn_back,             \* frames written by the accepting side and not yet read
  mining_pool,           \* app.py mining_pool: address -> shares
  mining_lock,           \* app.py mining_lock: who holds it
  worker_pc,             \* where mining_worker stands
  distributed,           \* what distribute_mining_rewards returned last
  connector              \* the threads that run connect_to_peer: whom they connect to, how far they are

netvars == <<net_chain, net_peers, net_seen, wire>>

\* the sockets and the mining pool
appvars == <<peers, sent, conn_open, conn_state, conn_out, conn_back,
             mining_pool, mining_lock, worker_pc, distributed, connector>>

vars == <<chain, utxo_set, pending_transactions, seen_blocks, seen_transactions,
          lock, now, pc, local, mining_cancel, outbox, netvars, appvars>>

Handlers == 1..NumHandlers
MinerThread == NumHandlers + 1
Threads == Handlers \cup {MinerThread}

\* --------------------------------------------------------------- the engine
\* a difficulty that does not grow with the chain
difficulty_flat(len) == Max(1, base_difficulty)

\* Blockchain.difficulty, for a chain of `len` blocks
difficulty(len) == Max(1, base_difficulty + (len \div difficulty_interval))

\* one input of update_utxo_set's inner loop
SpendInput(utxo, inp) ==
  IF inp.txid \in DOMAIN utxo /\ inp.vout < Len(utxo[inp.txid])
  THEN [utxo EXCEPT ![inp.txid][inp.vout + 1] = Spent]
  ELSE utxo

RECURSIVE SpendInputs(_, _, _)
SpendInputs(utxo, inputs, i) ==
  IF i > Len(inputs) THEN utxo
  ELSE SpendInputs(SpendInput(utxo, inputs[i]), inputs, i + 1)

\* one transaction of update_utxo_set's outer loop
ApplyTx(utxo, tx) ==
  LET u == SpendInputs(utxo, tx.inputs, 1)
  IN [k \in DOMAIN u \cup {tx.txid} |-> IF k = tx.txid THEN tx.outputs ELSE u[k]]

RECURSIVE ApplyTxs(_, _, _)
ApplyTxs(utxo, txs, i) ==
  IF i > Len(txs) THEN utxo ELSE ApplyTxs(ApplyTx(utxo, txs[i]), txs, i + 1)

\* Blockchain.update_utxo_set
update_utxo_set(utxo, block) == ApplyTxs(utxo, block.transactions, 1)

\* an entry of a transaction's `inputs` that is no JSON object (a string, a
\* number): inp.get raises AttributeError
NotADict == [txid |-> <<"str">>, vout |-> 0, pubkey |-> "?", signature |-> BadSig]

\* update_utxo_set raises on `block`
update_raises(block) ==
  \E j \in 1..Len(block.transactions) :
    \E i \in 1..Len(block.transactions[j].inputs) : block.transactions[j].inputs[i] = NotADict

\* the UTXO set as update_utxo_set leaves it when it raises: the transactions
\* before the one with the bad input applied, and of that one the inputs
\* before the bad input marked spent
update_utxo_partial(utxo, block) ==
  LET bad(j) == \E i \in 1..Len(block.transactions[j].inputs) :
                  block.transactions[j].inputs[i] = NotADict
      j0 == CHOOSE j \in 1..Len(block.transactions) :
              bad(j) /\ \A k \in 1..(j - 1) : ~bad(k)
      ins == block.transactions[j0].inputs
      i0 == CHOOSE i \in 1..Len(ins) : ins[i] = NotADict /\ \A k \in 1..(i - 1) : ins[k] # NotADict
  IN SpendInputs(ApplyTxs(utxo, SubSeq(block.transactions, 1, j0 - 1), 1),
                 SubSeq(ins, 1, i0 - 1), 1)

\* the rebuild loop of _receive_chain and load_from_file
RECURSIVE ReplayFrom(_, _, _)
ReplayFrom(utxo, ch, i) ==
  IF i > Len(ch) THEN utxo ELSE ReplayFrom(update_utxo_set(utxo, ch[i]), ch, i + 1)

rebuild_utxo(ch) == ReplayFrom(<<>>, ch, 1)

\* Blockchain.get_balance
RECURSIVE SumAmounts(_, _)
SumAmounts(outs, address) ==
  IF Len(outs) = 0 THEN 0
  ELSE (IF outs[1] # Spent /\ outs[1].address = address THEN outs[1].amount ELSE 0)
       + SumAmounts(Tail(outs), address)

RECURSIVE SumOver(_, _, _)
SumOver(utxo, keys, address) ==
  IF keys = {} THEN 0
  ELSE LET k == CHOOSE x \in keys : TRUE
       IN SumAmounts(utxo[k], address) + SumOver(utxo, keys \ {k}, address)

get_balance(utxo, address) == SumOver(utxo, DOMAIN utxo, address)

\* Blockchain.median_time_past, doubled (statistics.median of an even number
\* of values is the mean of the middle two); index is 0-based as in the code
median_time_past2(ch, index) ==
  IF index <= 0 THEN 0
  ELSE LET start == Max(0, index - MedianSpan)
           times == [i \in 1..(index - start) |-> ch[start + i].timestamp]
           s == SortSeq(times, LAMBDA a, b : a < b)
           n == Len(s)
       IN IF n % 2 = 1 THEN 2 * s[(n + 1) \div 2] ELSE s[n \div 2] + s[(n \div 2) + 1]

\* is_block_timestamp_valid that turns down a timestamp of exactly two hours
\* ahead
is_block_timestamp_valid_strict(ch, block, clock) ==
  IF block.timestamp >= clock + TwoHours THEN "invalid"
  ELSE IF block.index > 0 /\ Len(ch) > 0
       THEN IF block.index > Len(ch) THEN "raise"
            ELSE LET m2 == median_time_past2(ch, block.index)
                 IN IF m2 # 0 /\ 2 * block.timestamp < m2 THEN "invalid" ELSE "valid"
       ELSE "valid"

\* Blockchain.is_block_timestamp_valid on a blockchain whose chain is `ch`:
\* "valid", "invalid", or "raise" (median_time_past indexes past the chain)
is_block_timestamp_valid(ch, block, clock) ==
  IF block.timestamp > clock + TwoHours THEN "invalid"
  ELSE IF block.index > 0 /\ Len(ch) > 0
       THEN IF block.index > Len(ch) THEN "raise"
            ELSE LET m2 == median_time_past2(ch, block.index)
                 IN IF m2 # 0 /\ 2 * block.timestamp < m2 THEN "invalid" ELSE "valid"
       ELSE "valid"

\* is_chain_valid with the proof-of-work test left out
is_chain_valid_nopow(ch, clock) ==
  /\ \A i \in 2..Len(ch) :
       /\ is_block_timestamp_valid(ch, ch[i], clock) = "valid"
       /\ ch[i].hash = calculate_hash(ch[i])
       /\ ch[i].previous_hash = ch[i - 1].hash
  /\ Len(ch) > 0 => is_block_timestamp_valid(ch, ch[1], clock) = "valid"

\* Blockchain.is_chain_valid on a blockchain whose chain is `ch`: TRUE when it
\* returns True (FALSE when it returns False or raises)
is_chain_valid(ch, clock) ==
  /\ \A i \in 2..Len(ch) :
       /\ is_block_timestamp_valid(ch, ch[i], clock) = "valid"
       /\ ch[i].hash = calculate_hash(ch[i])
       /\ ch[i].previous_hash = ch[i - 1].hash
       /\ startswith_zeros(ch[i].hash, difficulty(Len(ch)))
  /\ Len(ch) > 0 => is_block_timestamp_valid(ch, ch[1], clock) = "valid"

\* Blockchain.create_genesis_block, made at time `t`
GenesisBlock(t) ==
  mine_block(Block(0, t, <<Transaction(<<>>, <<[address |-> "genesis", amount |-> 0]>>, t)>>,
                   GenesisPrev, 0),
             difficulty(0))

\* the coinbase of mine_pending_transactions
Coinbase(address, t) ==
  Transaction(<<>>, <<[address |-> address, amount |-> mining_reward]>>, t)

Tip(ch) == ch[Len(ch)]

\* blocks that threads have checked and not yet appended
InFlight == Cardinality({t \in Threads : pc[t] \in {"m_append", "rb_lock", "rc_swap"}})

\* ------------------------------------------------------------- a network
NumNodes == 2          \* nodes of the network

Nodes == 1..NumNodes

\* every node starts on a genesis block of its own making (node n at time n),
\* knows no peer and has seen nothing
NetInit ==
  /\ net_chain = [n \in Nodes |-> <<GenesisBlock(n)>>]
  /\ net_peers = [n \in Nodes |-> {}]
  /\ net_seen = [n \in Nodes |-> {}]
  /\ wire = {}

\* ------------------------------------------- the sockets and the mining pool
MaxVout == 2           \* output indices tried on verify run from -MaxVout to MaxVout
NumPeers == 2          \* remote peers the single node can come to know
MaxShares == 2         \* shares a member of the mining pool can collect in a round
MaxConnects == 3       \* threads that run connect_to_peer over a behaviour

RemotePeers == 1..NumPeers

\* <<a, b>>: the socket that node a's connect_to_peer opens to node b
Conns == {c \in Nodes \X Nodes : c[1] # c[2]}

\* the addresses that can join the mining pool
PoolMembers == {"A", "B"}

\* no peer is known, every handler thread serves an open socket, no node has
\* connected to another, nobody has joined the pool, mining_worker sleeps and
\* no thread runs connect_to_peer
AppInit ==
  /\ peers = {}
  /\ sent = {}
  /\ conn_open = [t \in Handlers |-> TRUE]
  /\ conn_state = [c \in Conns |-> "none"]
  /\ conn_out = [c \in Conns |-> <<>>]
  /\ conn_back = [c \in Conns |-> <<>>]
  /\ mining_pool = <<>>
  /\ mining_lock = "free"
  /\ worker_pc = "sleep"
  /\ distributed = <<>>
  /\ connector = [th \in 1..MaxConnects |-> <<>>]

Init ==
  /\ chain = <<GenesisBlock(1)>>
  /\ utxo_set = rebuild_utxo(<<GenesisBlock(1)>>)
  /\ pending_transactions = <<>>
  /\ seen_blocks = {}
  /\ seen_transactions = {}
  /\ lock = {}
  /\ now = 1
  /\ pc = [t \in Threads |-> "idle"]
  /\ local = [t \in Threads |-> <<>>]
  /\ mining_cancel = FALSE
  /\ outbox = <<>>
  /\ NetInit
  /\ AppInit

\* mine_pending_transactions with the coinbase put behind the pool
MineBuild_coinbase_last ==
  /\ pc[MinerThread] = "idle"
  /\ Len(chain) + InFlight < MaxChain
  /\ now < MaxTime
  /\ LET transactions == pending_transactions \o <<Coinbase(MinerAddr, now)>>
         new_block == Block(Len(chain), now, transactions, Tip(chain).hash, 0)
     IN local' = [local EXCEPT ![MinerThread] = <<mine_block(new_block, difficulty(Len(chain)))>>]
  /\ pc' = [pc EXCEPT ![MinerThread] = "m_append"]
  /\ now' = now + 1
  /\ mining_cancel' = FALSE
  /\ UNCHANGED <<chain, utxo_set, pending_transactions, seen_blocks, seen_transactions, lock>>
  /\ UNCHANGED <<outbox, netvars, appvars>>

\* ---------------------------------------------------------------- the miner
\* mine_pending_transactions up to the end of the proof-of-work search: the
\* snapshot of the pool, the candidate block, the nonce search
MineBuild ==
  /\ pc[MinerThread] = "idle"
  /\ Len(chain) + InFlight < MaxChain
  /\ now < MaxTime
  /\ LET transactions == <<Coinbase(MinerAddr, now)>> \o pending_transactions
         new_block == Block(Len(chain), now, transactions, Tip(chain).hash, 0)
     IN local' = [local EXCEPT ![MinerThread] = <<mine_block(new_block, difficulty(Len(chain)))>>]
  /\ pc' = [pc EXCEPT ![MinerThread] = "m_append"]
  /\ now' = now + 1
  /\ mining_cancel' = FALSE
  /\ UNCHANGED <<chain, utxo_set, pending_transactions, seen_blocks, seen_transactions, lock>>
  /\ UNCHANGED <<outbox, netvars, appvars>>

\* mine_pending_transactions without the test of the cancel flag
MineAppend_nocheck ==
  /\ pc[MinerThread] = "m_append"
  /\ chain' = Append(chain, local[MinerThread][1])
  /\ pc' = [pc EXCEPT ![MinerThread] = "m_utxo"]
  /\ UNCHANGED <<utxo_set, pending_transactions, seen_blocks, seen_transactions, lock, now, local>>
  /\ UNCHANGED <<mining_cancel, outbox, netvars, appvars>>

\* `if self.mining_cancel` is false; self.chain.append(new_block)
MineAppend ==
  /\ pc[MinerThread] = "m_append"
  /\ ~mining_cancel
  /\ chain' = Append(chain, local[MinerThread][1])
  /\ pc' = [pc EXCEPT ![MinerThread] = "m_utxo"]
  /\ UNCHANGED <<utxo_set, pending_transactions, seen_blocks, seen_transactions, lock, now, local>>
  /\ UNCHANGED <<mining_cancel, outbox, netvars, appvars>>

\* self.update_utxo_set(new_block); self.pending_transactions = []
MineUtxo ==
  /\ pc[MinerThread] = "m_utxo"
  /\ utxo_set' = update_utxo_set(utxo_set, local[MinerThread][1])
  /\ pending_transactions' = <<>>
  /\ pc' = [pc EXCEPT ![MinerThread] = "idle"]
  /\ local' = [local EXCEPT ![MinerThread] = <<>>]
  /\ UNCHANGED <<chain, seen_blocks, seen_transactions, lock, now>>
  /\ UNCHANGED <<mining_cancel, outbox, netvars, appvars>>

\* ------------------------------------------------- what arrives off the wire
\* a transaction of a remote party that names output 0 of `ref` as its input
\* and is signed with the remote party's own key
SpendTx(ref, t) ==
  LET out == utxo_set[ref][1]
      inputs0 == <<[txid |-> ref, vout |-> 0, pubkey |-> PeerKey, signature |-> BadSig]>>
      outputs == <<[address |-> PeerAddr,
                    amount |-> IF out = Spent THEN mining_reward ELSE out.amount]>>
      id == tx_calculate_hash(inputs0, outputs, t)
  IN TransactionWithId(
       <<[txid |-> ref, vout |-> 0, pubkey |-> PeerKey, signature |-> Sign(PeerKey, id)]>>,
       outputs, t, id)

UnsignedTx(to, amount, t) == Transaction(<<>>, <<[address |-> to, amount |-> amount]>>, t)

\* NEW_TRANSACTION payloads: a spend of the genesis output and of the output
\* of the tip's first transaction, the genesis transaction sent again, and an
\* input-less payment
TxInputs ==
  {SpendTx(ref, now) : ref \in {chain[1].transactions[1].txid, Tip(chain).transactions[1].txid}
                                 \cap DOMAIN utxo_set}
  \cup {chain[1].transactions[1]}
  \cup {UnsignedTx(PeerAddr, mining_reward, now)}

\* a block as a remote miner makes it: header fields as given, the nonce
\* searched for `d` leading zeros
PeerBlock(index, timestamp, txs, previous_hash, d) ==
  mine_block(Block(index, timestamp, txs, previous_hash, 0), d)

\* a block whose stored hash is not the digest of its header
ForgeHash(b) == [b EXCEPT !.hash = <<HashLen>>]

\* a block whose stored merkle_root is not the root of its transactions
ForgeMerkle(b, d) ==
  LET hdr == [b EXCEPT !.merkle_root = <<>>, !.nonce = 0]
  IN mine_block([hdr EXCEPT !.hash = calculate_hash(hdr)], d)

\* NEW_BLOCK payloads: a remote miner's block on the tip, with and without a
\* transaction besides the coinbase, and with a wrong index or an old timestamp
BlockInputs ==
  LET L == Len(chain)
      tip == Tip(chain).hash
      d == difficulty(L)
      cb == Coinbase(PeerAddr, now)
  IN {PeerBlock(L, now, <<cb, tx>>, tip, d) : tx \in TxInputs}
     \cup {PeerBlock(index, timestamp, <<cb>>, tip, d) : index \in {0, L}, timestamp \in {0, now}}

\* every way a NEW_BLOCK payload can be wrong, one at a time
BlockInputsWide ==
  LET L == Len(chain)
      tip == Tip(chain).hash
      d == difficulty(L)
      cb == Coinbase(PeerAddr, now)
      honest == PeerBlock(L, now, <<cb>>, tip, d)
  IN {PeerBlock(index, timestamp, <<cb>>, tip, d) :
        index \in {0, L, L + 1}, timestamp \in {0, now, now + TwoHours, now + TwoHours + 1}}
     \cup {PeerBlock(L, now, <<cb>>, chain[1].hash, d),
           PeerBlock(L, now, <<cb>>, tip, 0),
           ForgeHash(honest),
           ForgeMerkle(honest, d)}

\* SEND_CHAIN payloads.  A block that a remote miner puts on `prefix`, in a
\* chain that will hold `total` blocks:
\*   "strong"   nonce searched for the difficulty of a chain of `total` blocks
\*   "weak"     nonce searched for the difficulty in force at the block's height
\*   "nopow"    nonce 0, no search
\*   "badindex" index 0
\*   "badlink"  previous_hash not the hash of the block before it
\*   "badhash"  stored hash not the digest of the header
\*   "old"      timestamp 0
ExtKinds == {"strong", "weak", "nopow", "badindex", "badlink", "badhash", "old"}

ExtBlock(prefix, kind, total) ==
  LET h == Len(prefix)
      index == IF kind = "badindex" THEN 0 ELSE h
      timestamp == IF kind = "old" THEN 0 ELSE now
      prev == IF kind = "badlink" THEN <<HashLen>> ELSE Tip(prefix).hash
      d == IF kind = "weak" THEN difficulty(h) ELSE IF kind = "nopow" THEN 0 ELSE difficulty(total)
      b == PeerBlock(index, timestamp, <<Coinbase(PeerAddr, h)>>, prev, d)
  IN IF kind = "badhash" THEN ForgeHash(b) ELSE b

\* the chains that put one block, or two, on the first k blocks of `ch`
Extensions(ch, kinds) ==
  UNION {
    LET prefix == SubSeq(ch, 1, k)
    IN {Append(prefix, ExtBlock(prefix, a, k + 1)) : a \in kinds}
       \cup {LET c1 == Append(prefix, ExtBlock(prefix, a, k + 2))
             IN Append(c1, ExtBlock(c1, b, k + 2)) : a \in kinds, b \in kinds}
    : k \in 1..Len(ch)}

ChainInputs == {c \in Extensions(chain, {"strong", "weak", "badindex"}) : Len(c) <= MaxChain}

ChainInputsWide == {c \in Extensions(chain, ExtKinds) : Len(c) <= MaxChain}

\* ------------------------------------------------------- _receive_block
\* the three conditions of the `if` that guards the append
extends_tip(b, ch) ==
  /\ b.previous_hash = Tip(ch).hash
  /\ b.hash = calculate_hash(b)
  /\ startswith_zeros(b.hash, difficulty(Len(ch)))

\* _receive_block up to the acquisition of the lock: seen-cache, timestamp
\* check, tip/hash/proof-of-work check
block_accepted(b) ==
  /\ b.hash \notin seen_blocks
  /\ is_block_timestamp_valid(chain, b, now) = "valid"
  /\ extends_tip(b, chain)

RbCheck(t, b) ==
  /\ pc[t] = "idle"
  /\ now < MaxTime
  /\ now' = now + 1
  /\ seen_blocks' = seen_blocks \cup {b.hash}
  /\ IF block_accepted(b)
     THEN /\ Len(chain) + InFlight < MaxChain
          /\ pc' = [pc EXCEPT ![t] = "rb_lock"]
          /\ local' = [local EXCEPT ![t] = <<b>>]
     ELSE UNCHANGED <<pc, local>>
  /\ UNCHANGED <<chain, utxo_set, pending_transactions, seen_transactions, lock>>
  /\ UNCHANGED <<mining_cancel, outbox, netvars, appvars>>

\* with self.lock: self.blockchain.chain.append(block)
RbAppend(t) ==
  /\ pc[t] = "rb_lock"
  /\ lock = {}
  /\ lock' = {t}
  /\ chain' = Append(chain, local[t][1])
  /\ pc' = [pc EXCEPT ![t] = "rb_utxo"]
  /\ UNCHANGED <<utxo_set, pending_transactions, seen_blocks, seen_transactions, now, local>>
  /\ UNCHANGED <<mining_cancel, outbox, netvars, appvars>>

\* update_utxo_set(block); pending_transactions = []; the lock is released;
\* broadcast_block.  When update_utxo_set raises, the exception leaves the
\* `with` (the lock is released) and ends in the `except` of _receive_block,
\* which prints it: the pool is not emptied and nothing is broadcast.
RbUtxo(t) ==
  /\ pc[t] = "rb_utxo"
  /\ IF update_raises(local[t][1])
     THEN /\ utxo_set' = update_utxo_partial(utxo_set, local[t][1])
          /\ UNCHANGED <<pending_transactions, seen_blocks, outbox>>
     ELSE /\ utxo_set' = update_utxo_set(utxo_set, local[t][1])
          /\ pending_transactions' = <<>>
          /\ seen_blocks' = seen_blocks \cup {local[t][1].hash}
          /\ outbox' = Append(outbox, <<"NEW_BLOCK", local[t][1].hash>>)
  /\ lock' = {}
  /\ pc' = [pc EXCEPT ![t] = "idle"]
  /\ local' = [local EXCEPT ![t] = <<>>]
  /\ UNCHANGED <<chain, seen_transactions, now>>
  /\ UNCHANGED <<mining_cancel, netvars, appvars>>

\* ------------------------------------------------- _receive_transaction
\* seen-cache; with self.lock: add_transaction; broadcast_transaction
RecvTx(t, tx) ==
  /\ pc[t] = "idle"
  /\ tx.txid \notin seen_transactions
  /\ lock = {}
  /\ Len(pending_transactions) < MaxPending
  /\ now < MaxTime
  /\ now' = now + 1
  /\ seen_transactions' = seen_transactions \cup {tx.txid}
  /\ pending_transactions' = Append(pending_transactions, tx)
  /\ outbox' = Append(outbox, <<"NEW_TRANSACTION", tx.txid>>)
  /\ UNCHANGED <<chain, utxo_set, seen_blocks, lock, pc, local>>
  /\ UNCHANGED <<mining_cancel, netvars, appvars>>

\* ------------------------------------------------------ POST /api/send
\* Handler.do_POST (node.py) and api_send without a session (app.py): an
\* input-less transaction is queued and broadcast
ApiSend(to, amount) ==
  /\ lock = {}
  /\ Len(pending_transactions) < MaxPending
  /\ now < MaxTime
  /\ now' = now + 1
  /\ pending_transactions' = Append(pending_transactions, UnsignedTx(to, amount, now))
  /\ seen_transactions' = seen_transactions \cup {UnsignedTx(to, amount, now).txid}
  /\ outbox' = Append(outbox, <<"NEW_TRANSACTION", UnsignedTx(to, amount, now).txid>>)
  /\ UNCHANGED <<chain, utxo_set, seen_blocks, lock, pc, local>>
  /\ UNCHANGED <<mining_cancel, netvars, appvars>>

\* ------------------------------------------------------- _receive_chain
\* the guard at the head of _receive_chain
rc_too_short(chain_data, ch) == Len(chain_data) = 0 \/ Len(chain_data) <= Len(ch)

\* _receive_chain up to the acquisition of the lock: the length guard, then
\* is_chain_valid on a temporary Blockchain that holds the candidate
chain_accepted(c) ==
  /\ ~rc_too_short(c, chain)
  /\ is_chain_valid(c, now)

RcCheck(t, c) ==
  /\ pc[t] = "idle"
  /\ now < MaxTime
  /\ now' = now + 1
  /\ IF chain_accepted(c)
     THEN /\ pc' = [pc EXCEPT ![t] = "rc_swap"]
          /\ local' = [local EXCEPT ![t] = c]
     ELSE UNCHANGED <<pc, local>>
  /\ UNCHANGED <<chain, utxo_set, pending_transactions, seen_blocks, seen_transactions, lock>>
  /\ UNCHANGED <<mining_cancel, outbox, netvars, appvars>>

\* with self.lock: the chain is swapped and the UTXO set rebuilt from it
RcSwap(t) ==
  /\ pc[t] = "rc_swap"
  /\ lock = {}
  /\ chain' = local[t]
  /\ utxo_set' = rebuild_utxo(local[t])
  /\ pc' = [pc EXCEPT ![t] = "idle"]
  /\ local' = [local EXCEPT ![t] = <<>>]
  /\ UNCHANGED <<pending_transactions, seen_blocks, seen_transactions, lock, now>>
  /\ UNCHANGED <<mining_cancel, outbox, netvars, appvars>>

Next ==
  \/ MineBuild
  \/ MineAppend
  \/ MineUtxo
  \/ \E t \in Handlers, b \in BlockInputs : RbCheck(t, b)
  \/ \E t \in Handlers : RbAppend(t)
  \/ \E t \in Handlers : RbUtxo(t)
  \/ \E t \in Handlers, c \in ChainInputs : RcCheck(t, c)
  \/ \E t \in Handlers : RcSwap(t)
  \/ \E t \in Handlers, tx \in TxInputs : RecvTx(t, tx)
  \/ ApiSend(PeerAddr, mining_reward)

Spec == Init /\ [][Next]_vars

\* no thread is inside an operation
Quiescent == \A t \in Threads : pc[t] = "idle"

\* one operation at a time: an operation starts only when no other is under way
NextSeq ==
  \/ Quiescent /\ MineBuild
  \/ MineAppend
  \/ MineUtxo
  \/ Quiescent /\ \E t \in Handlers, b \in BlockInputs : RbCheck(t, b)
  \/ \E t \in Handlers : RbAppend(t)
  \/ \E t \in Handlers : RbUtxo(t)
  \/ Quiescent /\ \E t \in Handlers, c \in ChainInputs : RcCheck(t, c)
  \/ \E t \in Handlers : RcSwap(t)
  \/ Quiescent /\ \E t \in Handlers, tx \in TxInputs : RecvTx(t, tx)
  \/ Quiescent /\ ApiSend(PeerAddr, mining_reward)

SpecSeq == Init /\ [][NextSeq]_vars

\* the handlers alone, fed every kind of wrong block and wrong chain, one
\* message at a time
NextValidate ==
  \/ Quiescent /\ \E t \in Handlers, b \in BlockInputsWide : RbCheck(t, b)
  \/ \E t \in Handlers : RbAppend(t)
  \/ \E t \in Handlers : RbUtxo(t)
  \/ Quiescent /\ \E t \in Handlers, c \in ChainInputsWide : RcCheck(t, c)
  \/ \E t \in Handlers : RcSwap(t)

SpecValidate == Init /\ [][NextValidate]_vars

\* ------------------------------------------ the seen-caches, step by step
\* `if block_hash in self.seen_blocks: return` and `self.seen_blocks.add` are
\* two statements with no lock around them: another thread can run in between.

\* payloads that arrive once more: the blocks of the chain and the blocks that
\* handlers are working on; the pending transactions and those in hand
Redelivered ==
  {chain[i] : i \in 2..Len(chain)}
  \cup {local[t][1] : t \in {h \in Handlers : pc[h] \in {"rb_seen", "rb_lock", "rb_utxo"}}}

RedeliveredTx ==
  {pending_transactions[i] : i \in 1..Len(pending_transactions)}
  \cup {local[t][1] : t \in {h \in Handlers : pc[h] = "rt_seen"}}

\* _receive_block: the test of the seen-cache
RbSeen(t, b) ==
  /\ pc[t] = "idle"
  /\ now < MaxTime
  /\ now' = now + 1
  /\ IF b.hash \in seen_blocks
     THEN UNCHANGED <<pc, local>>
     ELSE /\ pc' = [pc EXCEPT ![t] = "rb_seen"]
          /\ local' = [local EXCEPT ![t] = <<b>>]
  /\ UNCHANGED <<chain, utxo_set, pending_transactions, seen_blocks, seen_transactions, lock>>
  /\ UNCHANGED <<mining_cancel, outbox, netvars, appvars>>

\* _receive_block from seen_blocks.add to the acquisition of the lock
RbValidate(t) ==
  /\ pc[t] = "rb_seen"
  /\ seen_blocks' = seen_blocks \cup {local[t][1].hash}
  /\ IF /\ is_block_timestamp_valid(chain, local[t][1], now) = "valid"
        /\ extends_tip(local[t][1], chain)
     THEN /\ Len(chain) + InFlight < MaxChain
          /\ pc' = [pc EXCEPT ![t] = "rb_lock"]
          /\ UNCHANGED local
     ELSE /\ pc' = [pc EXCEPT ![t] = "idle"]
          /\ local' = [local EXCEPT ![t] = <<>>]
  /\ UNCHANGED <<chain, utxo_set, pending_transactions, seen_transactions, lock, now>>
  /\ UNCHANGED <<mining_cancel, outbox, netvars, appvars>>

\* transactions that handlers have tested and not yet queued
TxInFlight == Cardinality({t \in Handlers : pc[t] = "rt_seen"})

\* _receive_transaction: the test of the seen-cache
RtSeen(t, tx) ==
  /\ pc[t] = "idle"
  /\ now < MaxTime
  /\ now' = now + 1
  /\ IF tx.txid \in seen_transactions
     THEN UNCHANGED <<pc, local>>
     ELSE /\ Len(pending_transactions) + TxInFlight < MaxPending
          /\ pc' = [pc EXCEPT ![t] = "rt_seen"]
          /\ local' = [local EXCEPT ![t] = <<tx>>]
  /\ UNCHANGED <<chain, utxo_set, pending_transactions, seen_blocks, seen_transactions, lock>>
  /\ UNCHANGED <<mining_cancel, outbox, netvars, appvars>>

\* _receive_transaction from seen_transactions.add on: with self.lock:
\* add_transaction; broadcast_transaction
RtAdd(t) ==
  /\ pc[t] = "rt_seen"
  /\ lock = {}
  /\ seen_transactions' = seen_transactions \cup {local[t][1].txid}
  /\ pending_transactions' = Append(pending_transactions, local[t][1])
  /\ outbox' = Append(outbox, <<"NEW_TRANSACTION", local[t][1].txid>>)
  /\ pc' = [pc EXCEPT ![t] = "idle"]
  /\ local' = [local EXCEPT ![t] = <<>>]
  /\ UNCHANGED <<chain, utxo_set, seen_blocks, lock, now>>
  /\ UNCHANGED <<mining_cancel, netvars, appvars>>

\* the peer handlers, every statement of the seen-caches a step of its own,
\* with payloads that arrive more than once
NextGossip ==
  \/ \E t \in Handlers, b \in BlockInputs \cup Redelivered : RbSeen(t, b)
  \/ \E t \in Handlers : RbValidate(t)
  \/ \E t \in Handlers : RbAppend(t)
  \/ \E t \in Handlers : RbUtxo(t)
  \/ \E t \in Handlers, tx \in TxInputs \cup RedeliveredTx : RtSeen(t, tx)
  \/ \E t \in Handlers : RtAdd(t)
  \/ ApiSend(PeerAddr, mining_reward)

SpecGossip == Init /\ [][NextGossip]_vars

\* --------------------------------------------- the miner, step by step
\* The miner's local state: <<candidate block, target of the search,
\* iterations of the nonce loop run while mining_cancel was set>>.

\* mine_pending_transactions up to the call of mine_block: the flag is reset,
\* the pool is snapshot, the candidate built with nonce 0
MineStart ==
  /\ pc[MinerThread] = "idle"
  /\ Len(chain) + InFlight < MaxChain
  /\ now < MaxTime
  /\ LET transactions == <<Coinbase(MinerAddr, now)>> \o pending_transactions
         new_block == Block(Len(chain), now, transactions, Tip(chain).hash, 0)
     IN local' = [local EXCEPT ![MinerThread] = <<new_block, difficulty(Len(chain)), 0>>]
  /\ pc' = [pc EXCEPT ![MinerThread] = "m_solve"]
  /\ now' = now + 1
  /\ mining_cancel' = FALSE
  /\ UNCHANGED <<chain, utxo_set, pending_transactions, seen_blocks, seen_transactions, lock>>
  /\ UNCHANGED <<outbox, netvars, appvars>>

\* Block.mine_block: one turn of `while not self.hash.startswith(target)`
MineIter ==
  /\ pc[MinerThread] = "m_solve"
  /\ ~startswith_zeros(local[MinerThread][1].hash, local[MinerThread][2])
  /\ local' = [local EXCEPT ![MinerThread] =
                 <<WithNonce(local[MinerThread][1], local[MinerThread][1].nonce + 1),
                   local[MinerThread][2],
                   local[MinerThread][3] + (IF mining_cancel THEN 1 ELSE 0)>>]
  /\ UNCHANGED <<chain, utxo_set, pending_transactions, seen_blocks, seen_transactions, lock,
                 now, pc>>
  /\ UNCHANGED <<mining_cancel, outbox, netvars, appvars>>

\* Block.mine_block: the loop condition fails, mine_block returns
MineFound ==
  /\ pc[MinerThread] = "m_solve"
  /\ startswith_zeros(local[MinerThread][1].hash, local[MinerThread][2])
  /\ pc' = [pc EXCEPT ![MinerThread] = "m_append"]
  /\ UNCHANGED <<chain, utxo_set, pending_transactions, seen_blocks, seen_transactions, lock,
                 now, local>>
  /\ UNCHANGED <<mining_cancel, outbox, netvars, appvars>>

\* `if self.mining_cancel: return`
MineCancelled ==
  /\ pc[MinerThread] = "m_append"
  /\ mining_cancel
  /\ pc' = [pc EXCEPT ![MinerThread] = "idle"]
  /\ local' = [local EXCEPT ![MinerThread] = <<>>]
  /\ UNCHANGED <<chain, utxo_set, pending_transactions, seen_blocks, seen_transactions, lock, now>>
  /\ UNCHANGED <<mining_cancel, outbox, netvars, appvars>>

\* Blockchain.cancel_mining
CancelMining ==
  /\ ~mining_cancel
  /\ mining_cancel' = TRUE
  /\ UNCHANGED <<chain, utxo_set, pending_transactions, seen_blocks, seen_transactions, lock,
                 now, pc, local>>
  /\ UNCHANGED <<outbox, netvars, appvars>>

\* the miner with its nonce loop and the cancel flag, transactions coming in
\* through the API and blocks through a peer handler
NextMiner ==
  \/ MineStart
  \/ MineIter
  \/ MineFound
  \/ MineCancelled
  \/ MineAppend
  \/ MineUtxo
  \/ CancelMining
  \/ ApiSend(PeerAddr, mining_reward)
  \/ \E t \in Handlers, b \in BlockInputs : RbCheck(t, b)
  \/ \E t \in Handlers : RbAppend(t)
  \/ \E t \in Handlers : RbUtxo(t)

SpecMiner == Init /\ [][NextMiner]_vars

\* ------------------------------------------------- a network of nodes
\* Each node runs the code above; of a node's state the network keeps the
\* chain, the peer set and the seen-cache of blocks (the UTXO set and the
\* pool have no part in what a node does with a block or a chain).  A message
\* is [type, to, from, data]; `from` is the node at the other end of the
\* socket.  Every handler runs to its end in one step.

\* the variables of the single node, which the network leaves alone
nodevars == <<chain, utxo_set, pending_transactions, seen_blocks, seen_transactions, lock,
              pc, local, mining_cancel, outbox, appvars>>

Msg(type, to, from, data) == [type |-> type, to |-> to, from |-> from, data |-> data]

RewardAddr(n) == IF n = 1 THEN MinerAddr ELSE PeerAddr

\* broadcast_block: one NEW_BLOCK to every peer of `n`
BlockToPeers(n, to, b) == {Msg("NEW_BLOCK", p, n, b) : p \in to}

\* connect_to_peer(b) run by node a: the peer is recorded and asked for its
\* chain and its peers over the new socket
NetConnect(a, b) ==
  /\ a # b
  /\ b \notin net_peers[a]
  /\ net_peers' = [net_peers EXCEPT ![a] = @ \cup {b}]
  /\ wire' = wire \cup {Msg("REQUEST_CHAIN", b, a, <<>>), Msg("REQUEST_PEERS", b, a, <<>>)}
  /\ UNCHANGED <<net_chain, net_seen>>
  /\ UNCHANGED <<now, nodevars>>

\* _handle_peer on REQUEST_CHAIN: _send_chain over the same socket
NetRequestChain(m) ==
  /\ m.type = "REQUEST_CHAIN"
  /\ wire' = (wire \ {m}) \cup {Msg("SEND_CHAIN", m.from, m.to, net_chain[m.to])}
  /\ UNCHANGED <<net_chain, net_peers, net_seen>>
  /\ UNCHANGED <<now, nodevars>>

\* _handle_peer on REQUEST_PEERS: _send_peers over the same socket
NetRequestPeers(m) ==
  /\ m.type = "REQUEST_PEERS"
  /\ wire' = (wire \ {m}) \cup {Msg("SEND_PEERS", m.from, m.to, net_peers[m.to])}
  /\ UNCHANGED <<net_chain, net_peers, net_seen>>
  /\ UNCHANGED <<now, nodevars>>

\* _receive_peers: connect_to_peer for every peer not yet known
NetReceivePeers(m) ==
  /\ m.type = "SEND_PEERS"
  /\ LET fresh == {p \in m.data : p # m.to /\ p \notin net_peers[m.to]}
     IN /\ net_peers' = [net_peers EXCEPT ![m.to] = @ \cup fresh]
        /\ wire' = (wire \ {m})
                     \cup {Msg("REQUEST_CHAIN", p, m.to, <<>>) : p \in fresh}
                     \cup {Msg("REQUEST_PEERS", p, m.to, <<>>) : p \in fresh}
  /\ UNCHANGED <<net_chain, net_seen>>
  /\ UNCHANGED <<now, nodevars>>

\* _receive_chain
NetReceiveChain(m) ==
  /\ m.type = "SEND_CHAIN"
  /\ wire' = wire \ {m}
  /\ net_chain' = IF ~rc_too_short(m.data, net_chain[m.to]) /\ is_chain_valid(m.data, now)
                  THEN [net_chain EXCEPT ![m.to] = m.data]
                  ELSE net_chain
  /\ UNCHANGED <<net_peers, net_seen>>
  /\ UNCHANGED <<now, nodevars>>

\* _receive_block, and broadcast_block when the block was appended
NetReceiveBlock(m) ==
  /\ m.type = "NEW_BLOCK"
  /\ LET n == m.to
         b == m.data
     IN IF b.hash \in net_seen[n]
        THEN /\ wire' = wire \ {m}
             /\ UNCHANGED <<net_chain, net_seen>>
        ELSE /\ net_seen' = [net_seen EXCEPT ![n] = @ \cup {b.hash}]
             /\ IF /\ is_block_timestamp_valid(net_chain[n], b, now) = "valid"
                   /\ extends_tip(b, net_chain[n])
                THEN /\ net_chain' = [net_chain EXCEPT ![n] = Append(@, b)]
                     /\ wire' = (wire \ {m}) \cup BlockToPeers(n, net_peers[n], b)
                ELSE /\ wire' = wire \ {m}
                     /\ UNCHANGED net_chain
  /\ UNCHANGED net_peers
  /\ UNCHANGED <<now, nodevars>>

\* mine_and_broadcast with an empty pool
NetMine(n) ==
  /\ now < MaxTime
  /\ Len(net_chain[n]) < MaxChain
  /\ LET ch == net_chain[n]
         b == mine_block(Block(Len(ch), now, <<Coinbase(RewardAddr(n), now)>>, Tip(ch).hash, 0),
                         difficulty(Len(ch)))
     IN /\ net_chain' = [net_chain EXCEPT ![n] = Append(@, b)]
        /\ net_seen' = [net_seen EXCEPT ![n] = @ \cup {b.hash}]
        /\ wire' = wire \cup BlockToPeers(n, net_peers[n], b)
  /\ now' = now + 1
  /\ UNCHANGED net_peers
  /\ UNCHANGED nodevars

NextNet ==
  \/ \E a, b \in Nodes : NetConnect(a, b)
  \/ \E m \in wire : NetRequestChain(m)
  \/ \E m \in wire : NetRequestPeers(m)
  \/ \E m \in wire : NetReceivePeers(m)
  \/ \E m \in wire : NetReceiveChain(m)
  \/ \E m \in wire : NetReceiveBlock(m)
  \/ \E n \in Nodes : NetMine(n)

SpecNet == Init /\ [][NextNet]_vars

\* ------------------------------------------------- the wallet's payments
\* None, as create_transaction returns it
NoTx == [inputs |-> <<>>, outputs |-> <<>>, timestamp |-> 0, txid |-> <<"None">>]

\* the txids of a chain's transactions, block after block
RECURSIVE ChainTxids(_, _, _)
ChainTxids(ch, i, j) ==
  IF i > Len(ch) THEN <<>>
  ELSE IF j > Len(ch[i].transactions) THEN ChainTxids(ch, i + 1, 1)
  ELSE <<ch[i].transactions[j].txid>> \o ChainTxids(ch, i, j + 1)

RECURSIVE FirstOccurrences(_, _)
FirstOccurrences(s, before) ==
  IF Len(s) = 0 THEN <<>>
  ELSE IF s[1] \in before THEN FirstOccurrences(Tail(s), before)
  ELSE <<s[1]>> \o FirstOccurrences(Tail(s), before \cup {s[1]})

\* self.utxo_set.items(): a dict iterates its keys in the order of their first
\* insertion, which update_utxo_set makes the order of the chain's
\* transactions (no operation is under way when a payment is made)
utxo_items(utxo, ch) ==
  SelectSeq(FirstOccurrences(ChainTxids(ch, 1, 1), {}), LAMBDA k : k \in DOMAIN utxo)

\* the two loops of find_spendable_outputs, from output `idx` (0-based) of the
\* k-th key on; `st` is (accumulated, used)
RECURSIVE SelectFrom(_, _, _, _, _, _, _)
SelectFrom(utxo, keys, address, amount, k, idx, st) ==
  IF k > Len(keys) THEN st
  ELSE IF idx >= Len(utxo[keys[k]]) THEN SelectFrom(utxo, keys, address, amount, k + 1, 0, st)
  ELSE LET out == utxo[keys[k]][idx + 1]
       IN IF out # Spent /\ out.address = address
          THEN LET st2 == [accumulated |-> st.accumulated + out.amount,
                           used |-> Append(st.used, <<keys[k], idx>>)]
               IN IF st2.accumulated >= amount THEN st2
                  ELSE SelectFrom(utxo, keys, address, amount, k, idx + 1, st2)
          ELSE SelectFrom(utxo, keys, address, amount, k, idx + 1, st)

\* Blockchain.find_spendable_outputs
find_spendable_outputs(utxo, keys, address, amount) ==
  SelectFrom(utxo, keys, address, amount, 1, 0, [accumulated |-> 0, used |-> <<>>])

\* create_transaction that leaves the change out
create_transaction_nochange(utxo, keys, key, to_address, amount, t) ==
  LET sel == find_spendable_outputs(utxo, keys, pubkey_to_address(key), amount)
      inputs == [i \in 1..Len(sel.used) |->
                   [txid |-> sel.used[i][1], vout |-> sel.used[i][2], pubkey |-> key]]
      outputs == <<[address |-> to_address, amount |-> amount]>>
      tx == Transaction(inputs, outputs, t)
      sig_hex == Sign(key, tx.txid)
  IN IF sel.accumulated < amount THEN NoTx
     ELSE [tx EXCEPT !.inputs = [i \in 1..Len(inputs) |->
                                   [txid |-> inputs[i].txid, vout |-> inputs[i].vout,
                                    pubkey |-> key, signature |-> sig_hex]]]

\* Blockchain.create_transaction for the wallet that holds key pair `key`
create_transaction(utxo, keys, key, to_address, amount, t) ==
  LET sel == find_spendable_outputs(utxo, keys, pubkey_to_address(key), amount)
      inputs == [i \in 1..Len(sel.used) |->
                   [txid |-> sel.used[i][1], vout |-> sel.used[i][2], pubkey |-> key]]
      change == sel.accumulated - amount
      outputs == <<[address |-> to_address, amount |-> amount]>>
                 \o (IF change > 0
                     THEN <<[address |-> pubkey_to_address(key), amount |-> change]>>
                     ELSE <<>>)
      tx == Transaction(inputs, outputs, t)
      sig_hex == Sign(key, tx.txid)
  IN IF sel.accumulated < amount THEN NoTx
     ELSE [tx EXCEPT !.inputs = [i \in 1..Len(inputs) |->
                                   [txid |-> inputs[i].txid, vout |-> inputs[i].vout,
                                    pubkey |-> key, signature |-> sig_hex]]]

\* api_send with a session (app.py): create_transaction for the user's
\* wallet; None is answered with "insufficient funds", a transaction is queued
\* under the lock and broadcast
ApiSendSigned(to, amount) ==
  /\ now < MaxTime
  /\ now' = now + 1
  /\ LET tx == create_transaction(utxo_set, utxo_items(utxo_set, chain), LocalKey, to, amount, now)
     IN IF tx = NoTx
        THEN UNCHANGED <<pending_transactions, seen_transactions, outbox>>
        ELSE /\ lock = {}
             /\ Len(pending_transactions) < MaxPending
             /\ pending_transactions' = Append(pending_transactions, tx)
             /\ seen_transactions' = seen_transactions \cup {tx.txid}
             /\ outbox' = Append(outbox, <<"NEW_TRANSACTION", tx.txid>>)
  /\ UNCHANGED <<chain, utxo_set, seen_blocks, lock, pc, local>>
  /\ UNCHANGED <<mining_cancel, netvars, appvars>>

\* what an anonymous POST /api/send names as amount: float(amount) of any sign
AnonAmounts == {0 - 51, 102}

\* what the wallet's owner asks to pay
SendAmounts == {51, 102}

\* the miner, anonymous payments to the wallet's address and the wallet's own
\* payments, one operation at a time
NextWallet ==
  \/ Quiescent /\ MineBuild
  \/ MineAppend
  \/ MineUtxo
  \/ Quiescent /\ \E amount \in AnonAmounts : ApiSend(MinerAddr, amount)
  \/ Quiescent /\ \E amount \in SendAmounts : ApiSendSigned(PeerAddr, amount)

SpecWallet == Init /\ [][NextWallet]_vars

\* ------------------------------------------------ a socket, frame by frame
\* _send_message writes a frame with sendall; the reader takes what
\* recv(65536) returns for one frame.  Nothing delimits the frames of the
\* stream, so one recv returns the first frame written and not yet read, or
\* several frames run together, or the first part of a frame, and json.loads
\* turns down both of these.

\* the types of a sequence of frames
FrameTypes(frames) == [i \in 1..Len(frames) |-> frames[i].type]

\* connect_to_peer(b) run by node a
ConnConnect(a, b) ==
  /\ a # b
  /\ b \notin net_peers[a]
  /\ conn_state[<<a, b>>] = "none"
  /\ net_peers' = [net_peers EXCEPT ![a] = @ \cup {b}]
  /\ conn_state' = [conn_state EXCEPT ![<<a, b>>] = "open"]
  /\ conn_out' = [conn_out EXCEPT ![<<a, b>>] =
                    <<Msg("REQUEST_CHAIN", b, a, <<>>), Msg("REQUEST_PEERS", b, a, <<>>)>>]
  /\ UNCHANGED <<net_chain, net_seen, wire>>
  /\ UNCHANGED <<peers, sent, conn_open, conn_back, mining_pool, mining_lock, worker_pc,
                 distributed>>
  /\ UNCHANGED <<chain, utxo_set, pending_transactions, seen_blocks, seen_transactions, lock,
                 now, pc, local, mining_cancel, outbox>>
  /\ UNCHANGED connector

\* _handle_peer of the accepting node on socket c, one turn of its loop: recv
\* returns the first k frames, or for k = 0 only the first part of the first
\* frame; one frame is parsed and answered over the same socket (_send_chain,
\* _send_peers), more than one and a part of one make Message.from_json
\* raise and the handler closes the socket
ConnServe(c, k) ==
  /\ conn_state[c] = "open"
  /\ conn_out[c] # <<>>
  /\ k \in 0..Len(conn_out[c])
  /\ IF k = 1
     THEN /\ conn_out' = [conn_out EXCEPT ![c] = Tail(@)]
          /\ conn_back' = [conn_back EXCEPT ![c] =
               IF conn_out[c][1].type = "REQUEST_CHAIN"
               THEN Append(@, Msg("SEND_CHAIN", c[1], c[2], net_chain[c[2]]))
               ELSE Append(@, Msg("SEND_PEERS", c[1], c[2], net_peers[c[2]]))]
          /\ UNCHANGED conn_state
     ELSE /\ conn_out' = [conn_out EXCEPT ![c] = SubSeq(@, k + 1, Len(@))]
          /\ conn_state' = [conn_state EXCEPT ![c] = "closed"]
          /\ UNCHANGED conn_back
  /\ UNCHANGED netvars
  /\ UNCHANGED <<peers, sent, conn_open, mining_pool, mining_lock, worker_pc, distributed>>
  /\ UNCHANGED <<chain, utxo_set, pending_transactions, seen_blocks, seen_transactions, lock,
                 now, pc, local, mining_cancel, outbox>>
  /\ UNCHANGED connector

\* _handle_peer of the connecting node on socket c (the response thread), one
\* turn of its loop: _receive_chain or _receive_peers on one frame, the
\* socket closed on several frames run together and on a part of a frame
ConnReply(c, k) ==
  /\ conn_state[c] = "open"
  /\ conn_back[c] # <<>>
  /\ k \in 0..Len(conn_back[c])
  /\ LET m == conn_back[c][1]
         a == c[1]
         fresh == IF m.type = "SEND_PEERS"
                  THEN {p \in m.data : p # a /\ p \notin net_peers[a]}
                  ELSE {}
     IN IF k = 1
        THEN /\ conn_back' = [conn_back EXCEPT ![c] = Tail(@)]
             /\ net_chain' = IF /\ m.type = "SEND_CHAIN"
                                /\ ~rc_too_short(m.data, net_chain[a])
                                /\ is_chain_valid(m.data, now)
                             THEN [net_chain EXCEPT ![a] = m.data]
                             ELSE net_chain
             /\ net_peers' = [net_peers EXCEPT ![a] = @ \cup fresh]
             /\ conn_state' = [d \in Conns |->
                                 IF d[1] = a /\ d[2] \in fresh THEN "open" ELSE conn_state[d]]
             /\ conn_out' = [d \in Conns |->
                               IF d[1] = a /\ d[2] \in fresh
                               THEN <<Msg("REQUEST_CHAIN", d[2], a, <<>>),
                                      Msg("REQUEST_PEERS", d[2], a, <<>>)>>
                               ELSE conn_out[d]]
        ELSE /\ conn_back' = [conn_back EXCEPT ![c] = SubSeq(@, k + 1, Len(@))]
             /\ conn_state' = [conn_state EXCEPT ![c] = "closed"]
             /\ UNCHANGED <<net_chain, net_peers, conn_out>>
  /\ UNCHANGED <<net_seen, wire>>
  /\ UNCHANGED <<peers, sent, conn_open, mining_pool, mining_lock, worker_pc, distributed>>
  /\ UNCHANGED <<chain, utxo_set, pending_transactions, seen_blocks, seen_transactions, lock,
                 now, pc, local, mining_cancel, outbox>>
  /\ UNCHANGED connector

\* nodes that connect to one another, mine and pass blocks on, with the
\* frames of the handshake on their socket
NextConn ==
  \/ \E a, b \in Nodes : ConnConnect(a, b)
  \/ \E c \in Conns : \E k \in 0..2 : ConnServe(c, k)
  \/ \E c \in Conns : \E k \in 0..2 : ConnReply(c, k)
  \/ \E m \in wire : NetReceiveBlock(m)
  \/ \E n \in Nodes : NetMine(n)

SpecConn == Init /\ [][NextConn]_vars

\* ------------------------------------------- a broadcast, peer by peer
\* broadcast_block and broadcast_transaction walk over list(self.peers), one
\* socket per peer; connect and send either work or raise, and the `except`
\* inside the loop goes on to the next peer.  A broadcasting thread's local
\* state: <<payload, message type, the peers listed, the peers still to come,
\* the peers that failed>>.

\* connect_to_peer has succeeded for remote peer p: `with self.lock: self.peers.add(peer)`
AddPeer(p) ==
  /\ p \notin peers
  /\ lock = {}
  /\ peers' = peers \cup {p}
  /\ UNCHANGED <<chain, utxo_set, pending_transactions, seen_blocks, seen_transactions, lock,
                 now, pc, local, mining_cancel, outbox, netvars>>
  /\ UNCHANGED <<sent, conn_open, conn_state, conn_out, conn_back, mining_pool, mining_lock,
                 worker_pc, distributed>>
  /\ UNCHANGED connector

\* _receive_block inside `with self.lock` after the append, up to the head of
\* broadcast_block's loop
RbApply(t) ==
  /\ pc[t] = "rb_utxo"
  /\ utxo_set' = update_utxo_set(utxo_set, local[t][1])
  /\ pending_transactions' = <<>>
  /\ lock' = {}
  /\ seen_blocks' = seen_blocks \cup {local[t][1].hash}
  /\ pc' = [pc EXCEPT ![t] = "bc_loop"]
  /\ local' = [local EXCEPT ![t] = <<local[t][1].hash, "NEW_BLOCK", peers, peers, {}>>]
  /\ UNCHANGED <<chain, seen_transactions, now, outbox>>
  /\ UNCHANGED <<mining_cancel, netvars, appvars>>

\* _receive_transaction up to the head of broadcast_transaction's loop
RtQueue(t, tx) ==
  /\ pc[t] = "idle"
  /\ tx.txid \notin seen_transactions
  /\ lock = {}
  /\ Len(pending_transactions) < MaxPending
  /\ now < MaxTime
  /\ now' = now + 1
  /\ seen_transactions' = seen_transactions \cup {tx.txid}
  /\ pending_transactions' = Append(pending_transactions, tx)
  /\ pc' = [pc EXCEPT ![t] = "bc_loop"]
  /\ local' = [local EXCEPT ![t] = <<tx.txid, "NEW_TRANSACTION", peers, peers, {}>>]
  /\ UNCHANGED <<chain, utxo_set, seen_blocks, lock, outbox>>
  /\ UNCHANGED <<mining_cancel, netvars, appvars>>

\* a loop that gives up at the first peer that fails
BcAttempt_break(t, p, ok) ==
  /\ pc[t] = "bc_loop"
  /\ p \in local[t][4]
  /\ IF ok
     THEN /\ sent' = sent \cup {<<p, local[t][2], local[t][1]>>}
          /\ local' = [local EXCEPT ![t][4] = @ \ {p}]
     ELSE /\ UNCHANGED sent
          /\ local' = [local EXCEPT ![t][4] = {}, ![t][5] = @ \cup {p}]
  /\ UNCHANGED <<chain, utxo_set, pending_transactions, seen_blocks, seen_transactions, lock,
                 now, pc, mining_cancel, outbox, netvars>>
  /\ UNCHANGED <<peers, conn_open, conn_state, conn_out, conn_back, mining_pool, mining_lock,
                 worker_pc, distributed>>
  /\ UNCHANGED connector

\* one turn of the loop, for peer p: socket, connect, _send_message, close
\* (ok), or an exception that the `except` of the loop prints (not ok)
BcAttempt(t, p, ok) ==
  /\ pc[t] = "bc_loop"
  /\ p \in local[t][4]
  /\ IF ok
     THEN /\ sent' = sent \cup {<<p, local[t][2], local[t][1]>>}
          /\ local' = [local EXCEPT ![t][4] = @ \ {p}]
     ELSE /\ UNCHANGED sent
          /\ local' = [local EXCEPT ![t][4] = @ \ {p}, ![t][5] = @ \cup {p}]
  /\ UNCHANGED <<chain, utxo_set, pending_transactions, seen_blocks, seen_transactions, lock,
                 now, pc, mining_cancel, outbox, netvars>>
  /\ UNCHANGED <<peers, conn_open, conn_state, conn_out, conn_back, mining_pool, mining_lock,
                 worker_pc, distributed>>
  /\ UNCHANGED connector

\* the loop has run out of peers: the broadcast returns
BcDone(t) ==
  /\ pc[t] = "bc_loop"
  /\ local[t][4] = {}
  /\ pc' = [pc EXCEPT ![t] = "idle"]
  /\ local' = [local EXCEPT ![t] = <<>>]
  /\ outbox' = Append(outbox, <<local[t][2], local[t][1]>>)
  /\ UNCHANGED <<chain, utxo_set, pending_transactions, seen_blocks, seen_transactions, lock,
                 now, mining_cancel, netvars, appvars>>

\* the peer handlers, one message at a time, with their broadcasts peer by
\* peer, while the node gets to know peers
NextBroadcast ==
  \/ \E p \in RemotePeers : AddPeer(p)
  \/ Quiescent /\ \E t \in Handlers, b \in BlockInputs : RbCheck(t, b)
  \/ \E t \in Handlers : RbAppend(t)
  \/ \E t \in Handlers : RbApply(t)
  \/ Quiescent /\ \E t \in Handlers, tx \in TxInputs : RtQueue(t, tx)
  \/ \E t \in Handlers, p \in RemotePeers, ok \in BOOLEAN : BcAttempt(t, p, ok)
  \/ \E t \in Handlers : BcDone(t)

SpecBroadcast == Init /\ [][NextBroadcast]_vars

\* ------------------------------------------------- frames that go wrong
\* a transaction one of whose inputs is no JSON object; _receive_block reads
\* the inputs off the wire as they are
BadTx(t) ==
  TransactionWithId(<<NotADict>>, <<[address |-> PeerAddr, amount |-> mining_reward]>>, t,
                    <<"bad", t>>)

\* NEW_BLOCK payloads with a header that passes every check and a
\* transaction that update_utxo_set cannot apply
FaultBlockInputs ==
  {PeerBlock(Len(chain), now, <<Coinbase(PeerAddr, now), BadTx(now)>>, Tip(chain).hash,
             difficulty(Len(chain)))}

\* _handle_peer, one turn of its loop on bytes that are no JSON or no
\* message: Message.from_json raises, the loop breaks, `finally` closes the
\* socket and the thread ends
RecvMalformed(t) ==
  /\ pc[t] = "idle"
  /\ conn_open[t]
  /\ now < MaxTime
  /\ now' = now + 1
  /\ conn_open' = [conn_open EXCEPT ![t] = FALSE]
  /\ UNCHANGED <<chain, utxo_set, pending_transactions, seen_blocks, seen_transactions, lock,
                 pc, local, mining_cancel, outbox, netvars>>
  /\ UNCHANGED <<peers, sent, conn_state, conn_out, conn_back, mining_pool, mining_lock,
                 worker_pc, distributed>>
  /\ UNCHANGED connector

\* _accept_connections: a new connection is accepted and a handler thread
\* started for it
Accept(t) ==
  /\ ~conn_open[t]
  /\ conn_open' = [conn_open EXCEPT ![t] = TRUE]
  /\ UNCHANGED <<chain, utxo_set, pending_transactions, seen_blocks, seen_transactions, lock,
                 now, pc, local, mining_cancel, outbox, netvars>>
  /\ UNCHANGED <<peers, sent, conn_state, conn_out, conn_back, mining_pool, mining_lock,
                 worker_pc, distributed>>
  /\ UNCHANGED connector

\* the peer handlers, one message at a time, on sockets that also carry
\* garbage and blocks that cannot be applied
NextFault ==
  \/ Quiescent /\ \E t \in Handlers, b \in BlockInputs \cup FaultBlockInputs :
                    conn_open[t] /\ RbCheck(t, b)
  \/ \E t \in Handlers : RbAppend(t)
  \/ \E t \in Handlers : RbUtxo(t)
  \/ Quiescent /\ \E t \in Handlers, tx \in TxInputs : conn_open[t] /\ RecvTx(t, tx)
  \/ Quiescent /\ \E t \in Handlers : RecvMalformed(t)
  \/ \E t \in Handlers : Accept(t)

SpecFault == Init /\ [][NextFault]_vars

\* --------------------------------------------------------- the mining pool
PoolAddr == "MINING_POOL_REWARD"

\* sum(user.get('shares', 0) for user in mining_pool.values())
RECURSIVE SumShares(_, _)
SumShares(pool, members) ==
  IF members = {} THEN 0
  ELSE LET a == CHOOSE x \in members : TRUE
       IN pool[a] + SumShares(pool, members \ {a})

total_shares(pool) == SumShares(pool, DOMAIN pool)

\* the body of distribute_mining_rewards once it holds mining_lock, total
\* positive: the rewards it returns, each user_share * block_reward kept as
\* the fraction <<shares * block_reward, total_shares>>
distribute_mining_rewards(pool) ==
  [address \in DOMAIN pool |-> <<pool[address] * mining_reward, total_shares(pool)>>]

\* POST /api/mining/start: the address joins with 0 shares if it is new
StartMining(address) ==
  /\ mining_lock = "free"
  /\ mining_pool' = [a \in DOMAIN mining_pool \cup {address} |->
                       IF a \in DOMAIN mining_pool THEN mining_pool[a] ELSE 0]
  /\ UNCHANGED <<chain, utxo_set, pending_transactions, seen_blocks, seen_transactions, lock,
                 now, pc, local, mining_cancel, outbox, netvars>>
  /\ UNCHANGED <<peers, sent, conn_open, conn_state, conn_out, conn_back, mining_lock,
                 worker_pc, distributed>>
  /\ UNCHANGED connector

\* POST /api/mining/stop: the address leaves the pool
StopMining(address) ==
  /\ mining_lock = "free"
  /\ mining_pool' = [a \in DOMAIN mining_pool \ {address} |-> mining_pool[a]]
  /\ UNCHANGED <<chain, utxo_set, pending_transactions, seen_blocks, seen_transactions, lock,
                 now, pc, local, mining_cancel, outbox, netvars>>
  /\ UNCHANGED <<peers, sent, conn_open, conn_state, conn_out, conn_back, mining_lock,
                 worker_pc, distributed>>
  /\ UNCHANGED connector

\* POST /api/mining/submit-work with a solution that verify_light_puzzle
\* accepts: one more share for a member, an error for anyone else
submit_work(address) ==
  /\ mining_lock = "free"
  /\ address \in DOMAIN mining_pool
  /\ mining_pool[address] < MaxShares
  /\ mining_pool' = [mining_pool EXCEPT ![address] = @ + 1]
  /\ UNCHANGED <<chain, utxo_set, pending_transactions, seen_blocks, seen_transactions, lock,
                 now, pc, local, mining_cancel, outbox, netvars>>
  /\ UNCHANGED <<peers, sent, conn_open, conn_state, conn_out, conn_back, mining_lock,
                 worker_pc, distributed>>
  /\ UNCHANGED connector

\* mining_worker, top of its loop: mining_lock.acquire(), then the test of
\* the pool
WorkerAcquire ==
  /\ worker_pc = "sleep"
  /\ mining_lock = "free"
  /\ mining_lock' = "worker"
  /\ worker_pc' = IF DOMAIN mining_pool = {} THEN "release" ELSE "mine"
  /\ UNCHANGED <<chain, utxo_set, pending_transactions, seen_blocks, seen_transactions, lock,
                 now, pc, local, mining_cancel, outbox, netvars>>
  /\ UNCHANGED <<peers, sent, conn_open, conn_state, conn_out, conn_back, mining_pool,
                 distributed>>
  /\ UNCHANGED connector

\* blockchain.mine_pending_transactions('MINING_POOL_REWARD')
WorkerMine ==
  /\ worker_pc = "mine"
  /\ Len(chain) < MaxChain
  /\ now < MaxTime
  /\ LET transactions == <<Coinbase(PoolAddr, now)>> \o pending_transactions
         new_block == mine_block(Block(Len(chain), now, transactions, Tip(chain).hash, 0),
                                 difficulty(Len(chain)))
     IN /\ chain' = Append(chain, new_block)
        /\ utxo_set' = update_utxo_set(utxo_set, new_block)
  /\ pending_transactions' = <<>>
  /\ now' = now + 1
  /\ mining_cancel' = FALSE
  /\ worker_pc' = "distribute"
  /\ UNCHANGED <<seen_blocks, seen_transactions, lock, pc, local, outbox, netvars>>
  /\ UNCHANGED <<peers, sent, conn_open, conn_state, conn_out, conn_back, mining_pool,
                 mining_lock, distributed>>
  /\ UNCHANGED connector

\* distribute_mining_rewards(latest_block), called by the worker: it starts
\* with mining_lock.acquire() on a threading.Lock, which waits for ever when
\* the lock is held, by whichever thread
WorkerDistribute ==
  /\ worker_pc = "distribute"
  /\ IF mining_lock # "free"
     THEN /\ worker_pc' = "blocked"
          /\ UNCHANGED <<mining_pool, mining_lock, distributed>>
     ELSE /\ worker_pc' = "release"
          /\ IF total_shares(mining_pool) = 0
             THEN UNCHANGED <<mining_pool, distributed>>
             ELSE /\ distributed' = distribute_mining_rewards(mining_pool)
                  /\ mining_pool' = [a \in DOMAIN mining_pool |-> 0]
          /\ UNCHANGED mining_lock
  /\ UNCHANGED <<chain, utxo_set, pending_transactions, seen_blocks, seen_transactions, lock,
                 now, pc, local, mining_cancel, outbox, netvars>>
  /\ UNCHANGED <<peers, sent, conn_open, conn_state, conn_out, conn_back>>
  /\ UNCHANGED connector

\* the `finally` of the worker: mining_lock.release(), then time.sleep(10)
WorkerRelease ==
  /\ worker_pc = "release"
  /\ mining_lock' = "free"
  /\ worker_pc' = "sleep"
  /\ UNCHANGED <<chain, utxo_set, pending_transactions, seen_blocks, seen_transactions, lock,
                 now, pc, local, mining_cancel, outbox, netvars>>
  /\ UNCHANGED <<peers, sent, conn_open, conn_state, conn_out, conn_back, mining_pool,
                 distributed>>
  /\ UNCHANGED connector

\* the pool's endpoints and its worker thread, with transactions coming in
NextPool ==
  \/ \E address \in PoolMembers : StartMining(address)
  \/ \E address \in PoolMembers : StopMining(address)
  \/ \E address \in PoolMembers : submit_work(address)
  \/ \E amount \in AnonAmounts : ApiSend(MinerAddr, amount)
  \/ WorkerAcquire
  \/ WorkerMine
  \/ WorkerDistribute
  \/ WorkerRelease

SpecPool == Init /\ [][NextPool]_vars

\* the pool with its worker thread scheduled once the block is mined: the
\* call of distribute_mining_rewards and the release, when they can be
\* taken, are taken (the thread is a running daemon thread)
SpecPoolLive ==
  /\ SpecPool
  /\ WF_vars(WorkerDistribute)
  /\ WF_vars(WorkerRelease)

\* ------------------------------------------------------ finding out peers
\* the node's own (host, port); the remote peers are 1..NumPeers
Self == 0

ConnThreads == 1..MaxConnects

\* SEND_PEERS payloads: lists of one or two addresses, the node's own and
\* repeated ones among them
PeerLists ==
  {<<a>> : a \in RemotePeers \cup {Self}}
  \cup {<<a, b>> : a \in RemotePeers \cup {Self}, b \in RemotePeers \cup {Self}}

\* thread slots not yet used, and those the running _receive_peers loops may
\* still need
FreeThreads == {th \in ConnThreads : connector[th] = <<>>}
Reserved ==
  LET n(t) == IF pc[t] = "rp_loop" THEN Len(local[t]) ELSE 0
      RECURSIVE sum(_)
      sum(T) == IF T = {} THEN 0 ELSE LET t == CHOOSE x \in T : TRUE IN n(t) + sum(T \ {t})
  IN sum(Handlers)

\* threading.Thread(target=self.connect_to_peer, args=(host, port)).start(),
\* and a call of connect_to_peer by the operator: the thread takes the first
\* free slot; `known` keeps whether the peer was in self.peers at the call
Spawn(p) ==
  LET th == CHOOSE x \in FreeThreads : \A y \in FreeThreads : x <= y
  IN [connector EXCEPT ![th] = [to |-> p, stage |-> "start", known |-> p \in peers]]

\* _handle_peer dispatches SEND_PEERS to _receive_peers(message.data)
RpStart(t, list) ==
  /\ pc[t] = "idle"
  /\ now < MaxTime
  /\ Cardinality(FreeThreads) - Reserved >= Len(list)
  /\ now' = now + 1
  /\ pc' = [pc EXCEPT ![t] = "rp_loop"]
  /\ local' = [local EXCEPT ![t] = list]
  /\ UNCHANGED <<chain, utxo_set, pending_transactions, seen_blocks, seen_transactions, lock,
                 mining_cancel, outbox, netvars>>
  /\ UNCHANGED <<peers, sent, conn_open, conn_state, conn_out, conn_back, mining_pool,
                 mining_lock, worker_pc, distributed, connector>>

\* _receive_peers, one turn of its loop: a thread for connect_to_peer is
\* started when the listed peer is not in self.peers
RpStep(t) ==
  /\ pc[t] = "rp_loop"
  /\ IF local[t] = <<>>
     THEN /\ pc' = [pc EXCEPT ![t] = "idle"]
          /\ UNCHANGED <<local, connector>>
     ELSE /\ connector' = IF Head(local[t]) \notin peers THEN Spawn(Head(local[t])) ELSE connector
          /\ local' = [local EXCEPT ![t] = Tail(local[t])]
          /\ UNCHANGED pc
  /\ UNCHANGED <<chain, utxo_set, pending_transactions, seen_blocks, seen_transactions, lock,
                 now, mining_cancel, outbox, netvars>>
  /\ UNCHANGED <<peers, sent, conn_open, conn_state, conn_out, conn_back, mining_pool,
                 mining_lock, worker_pc, distributed>>

\* connect_to_peer called by the operator (the `connect` command, the
\* bootstrap peers given at start)
ConnectCall(p) ==
  /\ now < MaxTime
  /\ Cardinality(FreeThreads) - Reserved >= 1
  /\ now' = now + 1
  /\ connector' = Spawn(p)
  /\ UNCHANGED <<chain, utxo_set, pending_transactions, seen_blocks, seen_transactions, lock,
                 pc, local, mining_cancel, outbox, netvars>>
  /\ UNCHANGED <<peers, sent, conn_open, conn_state, conn_out, conn_back, mining_pool,
                 mining_lock, worker_pc, distributed>>

\* connect_to_peer without the test of the peer set
ConnectCheck_nocheck(th) ==
  /\ connector[th] # <<>>
  /\ connector[th].stage = "start"
  /\ connector' = [connector EXCEPT ![th].stage =
                     IF connector[th].to = Self THEN "self" ELSE "connect"]
  /\ UNCHANGED <<chain, utxo_set, pending_transactions, seen_blocks, seen_transactions, lock,
                 now, pc, local, mining_cancel, outbox, netvars>>
  /\ UNCHANGED <<peers, sent, conn_open, conn_state, conn_out, conn_back, mining_pool,
                 mining_lock, worker_pc, distributed>>

\* connect_to_peer up to the socket: False for the node's own address, True
\* at once for a peer in self.peers
ConnectCheck(th) ==
  /\ connector[th] # <<>>
  /\ connector[th].stage = "start"
  /\ connector' = [connector EXCEPT ![th].stage =
                     IF connector[th].to = Self THEN "self"
                     ELSE IF connector[th].to \in peers THEN "known"
                     ELSE "connect"]
  /\ UNCHANGED <<chain, utxo_set, pending_transactions, seen_blocks, seen_transactions, lock,
                 now, pc, local, mining_cancel, outbox, netvars>>
  /\ UNCHANGED <<peers, sent, conn_open, conn_state, conn_out, conn_back, mining_pool,
                 mining_lock, worker_pc, distributed>>

\* connect_to_peer from sock.connect on: when the connection is made the
\* peer is added under the lock and REQUEST_CHAIN and REQUEST_PEERS are
\* written; when it is refused the exception ends the call
ConnectOpen(th, ok) ==
  /\ connector[th] # <<>>
  /\ connector[th].stage = "connect"
  /\ lock = {}
  /\ IF ok
     THEN /\ peers' = peers \cup {connector[th].to}
          /\ connector' = [connector EXCEPT ![th].stage = "opened"]
     ELSE /\ connector' = [connector EXCEPT ![th].stage = "failed"]
          /\ UNCHANGED peers
  /\ UNCHANGED <<chain, utxo_set, pending_transactions, seen_blocks, seen_transactions, lock,
                 now, pc, local, mining_cancel, outbox, netvars>>
  /\ UNCHANGED <<sent, conn_open, conn_state, conn_out, conn_back, mining_pool,
                 mining_lock, worker_pc, distributed>>

\* peer lists coming in on the handlers' sockets and connects asked for by
\* the operator, with the connect threads running freely
NextPeers ==
  \/ \E t \in Handlers, list \in PeerLists : RpStart(t, list)
  \/ \E t \in Handlers : RpStep(t)
  \/ \E p \in RemotePeers \cup {Self} : ConnectCall(p)
  \/ \E th \in ConnThreads : ConnectCheck(th)
  \/ \E th \in ConnThreads, ok \in BOOLEAN : ConnectOpen(th, ok)

SpecPeers == Init /\ [][NextPeers]_vars

\* ------------------------------------------------------ mine_and_broadcast
\* mine_pending_transactions called by mine_and_broadcast, its last two
\* statements; the call returns to mine_and_broadcast, and the block it
\* appended is kept in `local` for reference
MabUtxo ==
  /\ pc[MinerThread] = "m_utxo"
  /\ utxo_set' = update_utxo_set(utxo_set, local[MinerThread][1])
  /\ pending_transactions' = <<>>
  /\ pc' = [pc EXCEPT ![MinerThread] = "m_bcast"]
  /\ UNCHANGED <<chain, seen_blocks, seen_transactions, lock, now, local>>
  /\ UNCHANGED <<mining_cancel, outbox, netvars, appvars>>

\* `if self.mining_cancel: return` in a call made by mine_and_broadcast
MabCancelled ==
  /\ pc[MinerThread] = "m_append"
  /\ mining_cancel
  /\ pc' = [pc EXCEPT ![MinerThread] = "m_bcast"]
  /\ local' = [local EXCEPT ![MinerThread] = <<>>]
  /\ UNCHANGED <<chain, utxo_set, pending_transactions, seen_blocks, seen_transactions, lock, now>>
  /\ UNCHANGED <<mining_cancel, outbox, netvars, appvars>>

\* mine_and_broadcast after the call: latest_block = get_latest_block();
\* broadcast_block(latest_block)
MabBroadcast ==
  /\ pc[MinerThread] = "m_bcast"
  /\ seen_blocks' = seen_blocks \cup {Tip(chain).hash}
  /\ outbox' = Append(outbox, <<"NEW_BLOCK", Tip(chain).hash>>)
  /\ pc' = [pc EXCEPT ![MinerThread] = "idle"]
  /\ local' = [local EXCEPT ![MinerThread] = <<>>]
  /\ UNCHANGED <<chain, utxo_set, pending_transactions, seen_transactions, lock, now>>
  /\ UNCHANGED <<mining_cancel, netvars, appvars>>

\* mine_and_broadcast with the cancel flag, and blocks coming in through the
\* peer handlers
NextMab ==
  \/ MineBuild
  \/ CancelMining
  \/ MabCancelled
  \/ MineAppend
  \/ MabUtxo
  \/ MabBroadcast
  \/ \E t \in Handlers, b \in BlockInputs : RbCheck(t, b)
  \/ \E t \in Handlers : RbAppend(t)
  \/ \E t \in Handlers : RbUtxo(t)

SpecMab == Init /\ [][NextMab]_vars

\* ------------------------------------------------------------------ claims

\* C1: a SEND_CHAIN candidate is taken up for replacement exactly when it
\* passes is_chain_valid and holds more blocks than the chain, and a candidate
\* that is turned down changes neither chain, UTXO set nor pending pool; the
\* step that replaces the chain installs a candidate that is valid and holds
\* more blocks than the chain it replaces, with the UTXO set replayed from it.
C1_ReplaceIff ==
  [][\A t \in Handlers :
       /\ \A c \in ChainInputs :
            RcCheck(t, c) =>
              /\ (pc'[t] = "rc_swap" /\ local'[t] = c)
                   <=> (is_chain_valid(c, now) /\ Len(c) > Len(chain))
              /\ UNCHANGED <<chain, utxo_set, pending_transactions>>
       /\ (pc[t] = "rc_swap" /\ pc'[t] = "idle") =>
            /\ chain' = local[t]
            /\ utxo_set' = rebuild_utxo(local[t])
            /\ is_chain_valid(local[t], now)
            /\ Len(local[t]) > Len(chain)]_vars

\* C2: every block after the first names the hash of the block before it.
C2_Linked ==
  \A i \in 2..Len(chain) : chain[i].previous_hash = chain[i - 1].hash

\* C3: the block at position i (counted from 0) has index i.
C3_IndexIsPosition ==
  \A i \in 1..Len(chain) : chain[i].index = i - 1

\* the proof-of-work target in force at height `index`
difficulty_at(index) == Max(1, base_difficulty + (index \div difficulty_interval))

\* C4: a chain that validation lets through has, at every height i >= 1, a
\* hash that is the digest of the header and has at least
\* max(1, base_difficulty + floor(i / difficulty_interval)) leading zeros.
C4_PowAtOwnIndex ==
  \A t \in Handlers :
    pc[t] = "rc_swap" =>
      \A i \in 2..Len(local[t]) :
        /\ local[t][i].hash = calculate_hash(local[t][i])
        /\ LeadingZeros(local[t][i].hash) >= difficulty_at(i - 1)

\* validation let a chain through whose heights have different targets
C4_Witness ==
  \E t \in Handlers :
    /\ pc[t] = "rc_swap"
    /\ \E i \in 2..Len(local[t]) : difficulty_at(i - 1) # difficulty_at(1)

\* the timestamp rule at height `height` of chain `ch`: not more than two
\* hours ahead of the clock, not before the median of the up to 11 blocks
\* under that height
timestamp_valid_at(ch, b, height, clock) ==
  /\ b.timestamp <= clock + TwoHours
  /\ height > 0 => 2 * b.timestamp >= median_time_past2(ch, height)

\* C5: a NEW_BLOCK not seen before goes on to be appended exactly when it
\* names the tip's hash, its hash is the digest of its header, and its proof
\* of work and timestamp are valid at height len(chain); a block that does
\* not name the tip changes neither chain, UTXO set nor pending pool.
C5_AppendIff ==
  [][\A t \in Handlers, b \in BlockInputs :
       (RbCheck(t, b) /\ b.hash \notin seen_blocks) =>
         /\ (pc'[t] = "rb_lock")
              <=> /\ b.previous_hash = Tip(chain).hash
                  /\ b.hash = calculate_hash(b)
                  /\ startswith_zeros(b.hash, difficulty(Len(chain)))
                  /\ timestamp_valid_at(chain, b, Len(chain), now)
         /\ b.previous_hash # Tip(chain).hash =>
              (pc'[t] = "idle" /\ UNCHANGED <<chain, utxo_set, pending_transactions>>)]_vars

\* the (txid, vout) pairs that the inputs of the chain's transactions name,
\* one entry per input
RECURSIVE InputRefs(_, _, _)
InputRefs(ch, i, j) ==
  IF i > Len(ch) THEN <<>>
  ELSE IF j > Len(ch[i].transactions) THEN InputRefs(ch, i + 1, 1)
  ELSE [k \in 1..Len(ch[i].transactions[j].inputs) |->
          <<ch[i].transactions[j].inputs[k].txid, ch[i].transactions[j].inputs[k].vout>>]
       \o InputRefs(ch, i, j + 1)

NoDoubleSpend(ch) ==
  LET refs == InputRefs(ch, 1, 1)
  IN \A a, b \in 1..Len(refs) : a # b => refs[a] # refs[b]

\* C6: every transaction with inputs in a block that is appended passes
\* verify against the UTXO set of that moment, and no output is named by two
\* inputs of the chain.
C6_AdmittedVerified ==
  [][/\ (Len(chain') = Len(chain) + 1 /\ SubSeq(chain', 1, Len(chain)) = chain) =>
          \A j \in 1..Len(Tip(chain').transactions) :
            Len(Tip(chain').transactions[j].inputs) > 0 =>
              verify(Tip(chain').transactions[j], utxo_set)
     /\ NoDoubleSpend(chain')]_vars

\* C7: outside a chain replacement, an output that is marked spent is still
\* marked spent after the step.
C7_SpentStaysSpent ==
  [][(\A t \in Handlers : ~(pc[t] = "rc_swap" /\ pc'[t] = "idle")) =>
       \A k \in DOMAIN utxo_set :
         \A v \in 1..Len(utxo_set[k]) :
           utxo_set[k][v] = Spent =>
             /\ k \in DOMAIN utxo_set'
             /\ v <= Len(utxo_set'[k])
             /\ utxo_set'[k][v] = Spent]_vars

\* the sum of the amounts of all live outputs
RECURSIVE LiveAmounts(_)
LiveAmounts(outs) ==
  IF Len(outs) = 0 THEN 0
  ELSE (IF outs[1] # Spent THEN outs[1].amount ELSE 0) + LiveAmounts(Tail(outs))

RECURSIVE LiveTotalOver(_, _)
LiveTotalOver(utxo, keys) ==
  IF keys = {} THEN 0
  ELSE LET k == CHOOSE x \in keys : TRUE
       IN LiveAmounts(utxo[k]) + LiveTotalOver(utxo, keys \ {k})

LiveTotal(utxo) == LiveTotalOver(utxo, DOMAIN utxo)

\* C8: when no thread is inside an engine operation, the live outputs sum to
\* mining_reward times the number of blocks after genesis.
C8_ValueConserved ==
  Quiescent => LiveTotal(utxo_set) = mining_reward * (Len(chain) - 1)

\* C9: every block after genesis holds exactly one input-less transaction,
\* its first, and that one pays mining_reward in a single output.
C9_OnlyMinerCoinbase ==
  \A i \in 2..Len(chain) :
    LET txs == chain[i].transactions
    IN /\ Len(txs) >= 1
       /\ Len(txs[1].inputs) = 0
       /\ Len(txs[1].outputs) = 1
       /\ txs[1].outputs[1].amount = mining_reward
       /\ \A j \in 2..Len(txs) : Len(txs[j].inputs) > 0

\* the code between the first and the last write of an append: in
\* mine_pending_transactions after chain.append, in _receive_block inside
\* `with self.lock`
InWriteCode(t) == pc[t] \in {"m_utxo", "rb_utxo"}

\* C10: a thread that is writing chain, utxo_set or pending_transactions
\* holds the lock, and no two threads are writing at once.
C10_WritesUnderLock ==
  /\ \A t \in Threads : InWriteCode(t) => t \in lock
  /\ Cardinality({t \in Threads : InWriteCode(t)}) <= 1

\* C11: no two blocks of the chain name the same previous block: of the
\* NEW_BLOCK messages that extend one tip, one is appended.
C11_OneBlockPerTip ==
  \A i, j \in 1..Len(chain) :
    i # j => chain[i].previous_hash # chain[j].previous_hash

\* no message of type `kind` stands twice in the node's broadcasts
BroadcastOnce(box, kind) ==
  \A i, j \in 1..Len(box) : (i # j /\ box[i][1] = kind) => box[i] # box[j]

\* C12: a block hash is applied at most once and broadcast at most once; a
\* NEW_BLOCK whose hash is in the seen-cache changes nothing.
C12_BlockOnce ==
  [][/\ \A t \in Handlers, b \in BlockInputs \cup Redelivered :
          (RbSeen(t, b) /\ b.hash \in seen_blocks) =>
            UNCHANGED <<chain, utxo_set, pending_transactions, outbox, pc>>
     /\ \A i, j \in 1..Len(chain') : i # j => chain'[i].hash # chain'[j].hash
     /\ BroadcastOnce(outbox', "NEW_BLOCK")]_vars

\* C13: a txid is queued at most once and broadcast at most once; the pool
\* only grows at its end or is emptied; a NEW_TRANSACTION whose txid the node
\* has broadcast itself changes nothing.
C13_TxOnce ==
  [][/\ \A t \in Handlers, tx \in TxInputs \cup RedeliveredTx :
          (RtSeen(t, tx) /\ \E i \in 1..Len(outbox) : outbox[i] = <<"NEW_TRANSACTION", tx.txid>>) =>
            UNCHANGED <<chain, utxo_set, pending_transactions, outbox, pc>>
     /\ \/ pending_transactions' = <<>>
        \/ /\ Len(pending_transactions') >= Len(pending_transactions)
           /\ SubSeq(pending_transactions', 1, Len(pending_transactions)) = pending_transactions
     /\ \A i, j \in 1..Len(pending_transactions') :
          i # j => pending_transactions'[i].txid # pending_transactions'[j].txid
     /\ BroadcastOnce(outbox', "NEW_TRANSACTION")]_vars

\* a NEW_BLOCK that is wrong for the chain as it stands: proof of work below
\* the target, timestamp outside the rule at the new height, stored hash not
\* the digest of the header, or previous_hash not the tip's hash
invalid_block(b) ==
  \/ ~startswith_zeros(b.hash, difficulty(Len(chain)))
  \/ ~timestamp_valid_at(chain, b, Len(chain), now)
  \/ b.hash # calculate_hash(b)
  \/ b.previous_hash # Tip(chain).hash

\* C14: a NEW_BLOCK that is invalid is dropped on receipt: the handler goes
\* back to idle, and chain, UTXO set, pending pool and broadcasts stay as
\* they are.
C14_InvalidBlockDropped ==
  [][\A t \in Handlers, b \in BlockInputsWide :
       (RbCheck(t, b) /\ invalid_block(b)) =>
         /\ pc'[t] = "idle"
         /\ UNCHANGED <<chain, utxo_set, pending_transactions, outbox>>]_vars

\* a NEW_TRANSACTION that is wrong: a negative amount, or an input that
\* Transaction.verify turns down (no such output, output spent, pubkey not
\* of the output's address, signature not over the txid)
invalid_tx(tx) ==
  \/ \E i \in 1..Len(tx.outputs) : tx.outputs[i].amount < 0
  \/ ~verify(tx, utxo_set)

\* C15: a NEW_TRANSACTION that is invalid is neither queued nor broadcast.
C15_InvalidTxDropped ==
  [][\A t \in Handlers, tx \in TxInputs :
       (RecvTx(t, tx) /\ invalid_tx(tx)) =>
         UNCHANGED <<pending_transactions, outbox>>]_vars

\* C16: mine builds a block whose index is the chain length and whose
\* previous_hash is the tip's hash at the call, whose transactions are the
\* coinbase paying mining_reward to the reward address followed by the pool
\* as it stands, in order, solved for the difficulty in force; it appends
\* that one block; then the pool is empty and the UTXO set holds the outputs
\* of every transaction of the block.
C16_MineBlock ==
  [][/\ (pc[MinerThread] = "idle" /\ pc'[MinerThread] = "m_append") =>
          LET b == local'[MinerThread][1]
          IN /\ b.index = Len(chain)
             /\ b.previous_hash = chain[Len(chain)].hash
             /\ Len(b.transactions) = 1 + Len(pending_transactions)
             /\ b.transactions[1].inputs = <<>>
             /\ b.transactions[1].outputs = <<[address |-> MinerAddr, amount |-> mining_reward]>>
             /\ SubSeq(b.transactions, 2, Len(b.transactions)) = pending_transactions
             /\ b.hash = calculate_hash(b)
             /\ LeadingZeros(b.hash) >= difficulty_at(Len(chain))
             /\ UNCHANGED <<chain, utxo_set, pending_transactions>>
     /\ (pc[MinerThread] = "m_append" /\ pc'[MinerThread] = "m_utxo") =>
          /\ chain' = Append(chain, local[MinerThread][1])
          /\ UNCHANGED <<utxo_set, pending_transactions>>
     /\ (pc[MinerThread] = "m_utxo" /\ pc'[MinerThread] = "idle") =>
          LET b == local[MinerThread][1]
          IN /\ pending_transactions' = <<>>
             /\ chain' = chain
             /\ \A j \in 1..Len(b.transactions) :
                  /\ b.transactions[j].txid \in DOMAIN utxo_set'
                  /\ Len(utxo_set'[b.transactions[j].txid]) = Len(b.transactions[j].outputs)]_vars

\* the miner has appended a block that carries the pool besides the coinbase
C16_Witness ==
  /\ pc[MinerThread] = "m_utxo"
  /\ Len(local[MinerThread][1].transactions) >= 2
  /\ chain[Len(chain)] = local[MinerThread][1]

\* C17: the step that replaces the chain leaves the pending pool empty.
C17_ReplaceClearsPool ==
  [][\A t \in Handlers :
       (pc[t] = "rc_swap" /\ pc'[t] = "idle") => pending_transactions' = <<>>]_vars

\* C18: a mine call that ends on the cancel flag has written nothing: none
\* of its steps changes chain, UTXO set or pending pool.
C18_CancelDiscards ==
  [][/\ (pc[MinerThread] = "m_append" /\ mining_cancel /\ pc'[MinerThread] # "m_append") =>
          /\ pc'[MinerThread] = "idle"
          /\ UNCHANGED <<chain, utxo_set, pending_transactions>>
     /\ (pc'[MinerThread] \in {"m_solve", "m_append"}
           /\ <<pc[MinerThread], local[MinerThread]>> # <<pc'[MinerThread], local'[MinerThread]>>) =>
          UNCHANGED <<chain, utxo_set, pending_transactions>>]_vars

\* the miner is back from a cancelled call whose search had found a hash
C18_Witness ==
  /\ pc[MinerThread] = "m_append"
  /\ mining_cancel
  /\ startswith_zeros(local[MinerThread][1].hash, local[MinerThread][2])
  /\ Len(pending_transactions) > 0

\* C19: once the cancel flag is set while the miner is solving, the nonce
\* loop runs at most one more iteration.
C19_CancelObserved ==
  pc[MinerThread] \in {"m_solve", "m_append"} => local[MinerThread][3] <= 1

\* every node has connected to every other node
FullMesh == \A a, b \in Nodes : a # b => b \in net_peers[a]

\* C20: in a network where every node has connected to every other and no
\* message is under way, all nodes hold the same chain (mining can stop at
\* any moment, so every such state must be converged).
C20_Converged ==
  (FullMesh /\ wire = {}) => \A a, b \in Nodes : net_chain[a] = net_chain[b]

\* the amounts of the outputs that the inputs of `tx` name in `utxo`
RECURSIVE InputAmounts(_, _, _)
InputAmounts(tx, utxo, i) ==
  IF i > Len(tx.inputs) THEN 0
  ELSE utxo[tx.inputs[i].txid][tx.inputs[i].vout + 1].amount + InputAmounts(tx, utxo, i + 1)

RECURSIVE OutputAmounts(_, _)
OutputAmounts(tx, i) ==
  IF i > Len(tx.outputs) THEN 0 ELSE tx.outputs[i].amount + OutputAmounts(tx, i + 1)

\* C21: a payment of the wallet is refused, with chain, UTXO set and pool
\* left as they are, whenever the live outputs of the wallet's address sum to
\* less than the amount, and a transaction is made exactly when the funds
\* suffice.
C21_NoneIffShort ==
  [][\A amount \in SendAmounts :
       ApiSendSigned(PeerAddr, amount) =>
         /\ get_balance(utxo_set, MinerAddr) < amount =>
              UNCHANGED <<chain, utxo_set, pending_transactions>>
         /\ (pending_transactions' # pending_transactions)
              <=> get_balance(utxo_set, MinerAddr) >= amount]_vars

\* C22: a transaction that create_transaction returns passes verify against
\* the UTXO set it was built from; every input names a live output of the
\* wallet's address and carries the wallet's public key and a signature over
\* the txid; the txid is the digest with the signatures attached; the outputs
\* are the recipient's amount and the change to the wallet, and sum to the
\* selected inputs.
C22_CreatedVerifies ==
  [][\A amount \in SendAmounts :
       (ApiSendSigned(PeerAddr, amount) /\ pending_transactions' # pending_transactions) =>
         LET tx == pending_transactions'[Len(pending_transactions')]
         IN /\ verify(tx, utxo_set)
            /\ \A i \in 1..Len(tx.inputs) :
                 /\ tx.inputs[i].txid \in DOMAIN utxo_set
                 /\ tx.inputs[i].vout < Len(utxo_set[tx.inputs[i].txid])
                 /\ utxo_set[tx.inputs[i].txid][tx.inputs[i].vout + 1] # Spent
                 /\ utxo_set[tx.inputs[i].txid][tx.inputs[i].vout + 1].address = MinerAddr
                 /\ tx.inputs[i].pubkey = LocalKey
                 /\ tx.inputs[i].signature = Sign(LocalKey, tx.txid)
            /\ tx.txid = tx_calculate_hash(tx.inputs, tx.outputs, tx.timestamp)
            /\ tx.outputs[1] = [address |-> PeerAddr, amount |-> amount]
            /\ \A j \in 2..Len(tx.outputs) : tx.outputs[j].address = MinerAddr
            /\ OutputAmounts(tx, 1) = InputAmounts(tx, utxo_set, 1)]_vars

\* a payment of the wallet is queued that spends an output and gives change
C22_Witness ==
  \E i \in 1..Len(pending_transactions) :
    /\ Len(pending_transactions[i].inputs) > 0
    /\ pending_transactions[i].inputs[1].pubkey = LocalKey
    /\ Len(pending_transactions[i].outputs) = 2

\* C23: the difficulty that a reader gets for a chain of L blocks is
\* max(1, base_difficulty + floor(L / difficulty_interval)); the miner
\* searches the next block for that target and a handler holds a received
\* block against it; when L is a multiple of difficulty_interval the target is
\* one above the target of the block before.
C23_DifficultyRule ==
  [][/\ (pc[MinerThread] = "idle" /\ pc'[MinerThread] = "m_solve") =>
          /\ local'[MinerThread][2]
               = Max(1, base_difficulty + (Len(chain) \div difficulty_interval))
          /\ (Len(chain) > 0 /\ Len(chain) % difficulty_interval = 0) =>
               local'[MinerThread][2]
                 = Max(1, base_difficulty + ((Len(chain) - 1) \div difficulty_interval)) + 1
     /\ (pc[MinerThread] = "m_solve" /\ pc'[MinerThread] = "m_append") =>
          LeadingZeros(local[MinerThread][1].hash) >= local[MinerThread][2]
     /\ \A t \in Handlers :
          (pc[t] = "idle" /\ pc'[t] = "rb_lock") =>
            LeadingZeros(local'[t][1].hash)
              >= Max(1, base_difficulty + (Len(chain) \div difficulty_interval))]_vars

\* the miner has solved a block for a target above the base difficulty
C23_Witness ==
  /\ pc[MinerThread] = "m_append"
  /\ local[MinerThread][2] > base_difficulty
  /\ Len(chain) % difficulty_interval = 0
  /\ LeadingZeros(local[MinerThread][1].hash) >= local[MinerThread][2]

\* the timestamps, sorted, of the up to 11 blocks of `ch` under height `h`
WindowTimes(ch, h) ==
  SortSeq([i \in 1..(h - Max(0, h - MedianSpan)) |-> ch[Max(0, h - MedianSpan) + i].timestamp],
          LAMBDA a, b : a < b)

\* twice the median of a sorted, non-empty sequence
Median2(s) ==
  IF Len(s) % 2 = 1 THEN 2 * s[(Len(s) + 1) \div 2]
  ELSE s[Len(s) \div 2] + s[(Len(s) \div 2) + 1]

\* the rule of the claim: more than 7200 seconds ahead of the clock, or, for
\* index > 0, before the median of the up to 11 blocks under the block's index
TimestampRejected(ch, b, clock) ==
  \/ b.timestamp > clock + 7200
  \/ b.index > 0 /\ 2 * b.timestamp < Median2(WindowTimes(ch, b.index))

\* the check and the rule give the same verdict on block `b` held against `ch`
SameVerdict(ch, b, clock) ==
  /\ (is_block_timestamp_valid(ch, b, clock) = "invalid") <=> TimestampRejected(ch, b, clock)
  /\ (is_block_timestamp_valid(ch, b, clock) = "valid") <=> ~TimestampRejected(ch, b, clock)

C25_Handshake ==
  [][\A c \in Conns :
       /\ (conn_state[c] = "none" /\ conn_state'[c] = "open") =>
            /\ c[2] \in net_peers'[c[1]]
            /\ FrameTypes(conn_out'[c]) = <<"REQUEST_CHAIN", "REQUEST_PEERS">>
       /\ (conn_state[c] = "open" /\ Len(conn_out'[c]) < Len(conn_out[c])) =>
            /\ Len(conn_back'[c]) = Len(conn_back[c]) + (Len(conn_out[c]) - Len(conn_out'[c]))
            /\ \A i \in 1..(Len(conn_out[c]) - Len(conn_out'[c])) :
                 conn_back'[c][Len(conn_back[c]) + i]
                   = IF conn_out[c][i].type = "REQUEST_CHAIN"
                     THEN Msg("SEND_CHAIN", c[1], c[2], net_chain[c[2]])
                     ELSE Msg("SEND_PEERS", c[1], c[2], net_peers[c[2]])]_vars

\* C26: a broadcast lists the peers the node knows when it starts; when it
\* returns, every listed peer has been tried and the message has reached
\* every listed peer whose socket did not fail; no turn of the loop changes
\* chain, UTXO set or pending pool.
C26_AllPeersServed ==
  [][\A t \in Handlers :
       /\ (pc[t] # "bc_loop" /\ pc'[t] = "bc_loop") =>
            /\ local'[t][3] = peers
            /\ local'[t][4] = peers
       /\ (pc[t] = "bc_loop" /\ pc'[t] = "bc_loop" /\ local'[t] # local[t]) =>
            UNCHANGED <<chain, utxo_set, pending_transactions>>
       /\ (pc[t] = "bc_loop" /\ pc'[t] = "idle") =>
            /\ \A p \in local[t][3] \ local[t][5] : <<p, local[t][2], local[t][1]>> \in sent
            /\ UNCHANGED <<chain, utxo_set, pending_transactions>>]_vars

\* a broadcast to two peers is at its end: one socket failed, the other peer
\* has the message
C26_Witness ==
  \E t \in Handlers :
    /\ pc[t] = "bc_loop"
    /\ local[t][4] = {}
    /\ local[t][5] # {}
    /\ \E p \in local[t][3] \ local[t][5] : <<p, local[t][2], local[t][1]>> \in sent

\* C27: a frame that does not parse closes the socket it came on and no
\* other, and changes neither chain, UTXO set nor pending pool; a message
\* whose handling fails closes its socket and no other, and leaves chain,
\* UTXO set and pending pool as they were before the message (the block of
\* the message is not in the chain); a closed socket's place can be taken by
\* a new connection.
C27_FaultBoundary ==
  /\ [](\A t \in Handlers : ~conn_open[t] => ENABLED Accept(t))
  /\ [][\A t \in Handlers :
       /\ (conn_open[t] /\ ~conn_open'[t]) =>
            /\ \A u \in Handlers \ {t} : conn_open'[u] = conn_open[u]
            /\ UNCHANGED <<chain, utxo_set, pending_transactions>>
       /\ (pc[t] = "rb_utxo" /\ pc'[t] = "idle" /\ update_raises(local[t][1])) =>
            /\ ~conn_open'[t]
            /\ \A u \in Handlers \ {t} : conn_open'[u] = conn_open[u]
            /\ \A i \in 1..Len(chain') : chain'[i] # local[t][1]
            /\ UNCHANGED <<utxo_set, pending_transactions>>]_vars

\* C28: a reader takes no lock and so can read in every state; in every
\* state the UTXO set it reads is the one of the chain it reads, that is,
\* every block of the chain has all its inputs marked spent and all its
\* outputs inserted, and nothing else has been applied.
C28_AtomicApply ==
  /\ utxo_set = rebuild_utxo(chain)
  /\ \A address \in {MinerAddr, PeerAddr} :
       get_balance(utxo_set, address) = get_balance(rebuild_utxo(chain), address)

\* C29: whenever no engine operation is in progress, the UTXO set is the
\* replay of update_utxo_set over the blocks of the chain in index order,
\* starting from the empty set.
C29_UtxoIsReplay == Quiescent => utxo_set = rebuild_utxo(chain)

\* C30: when the worker has mined a block for the pool and the call of
\* distribute_mining_rewards is over, then with a positive total of shares
\* every member is paid mining_reward * shares / total, the payouts add up
\* to mining_reward and every member's share count is 0; with a total of 0
\* nothing is paid and no share count changes.
C30_Distribution ==
  [][(worker_pc = "distribute" /\ worker_pc' # "distribute") =>
       LET total == total_shares(mining_pool)
       IN IF total > 0
          THEN /\ DOMAIN distributed' = DOMAIN mining_pool
               /\ \A a \in DOMAIN mining_pool :
                    /\ distributed'[a] = <<mining_reward * mining_pool[a], total>>
                    /\ mining_pool'[a] = 0
               /\ SumShares([a \in DOMAIN mining_pool |-> distributed'[a][1]],
                            DOMAIN mining_pool) = mining_reward * total
               /\ DOMAIN mining_pool' = DOMAIN mining_pool
          ELSE UNCHANGED <<mining_pool, distributed>>]_vars

\* C31: while the worker runs mine_pending_transactions (proof-of-work
\* search, append, UTXO update) mining_lock is not held, and a join, a leave
\* and a share submission can go ahead.
C31_PoolLockDisjoint ==
  worker_pc = "mine" =>
    /\ mining_lock = "free"
    /\ \A address \in PoolMembers : ENABLED StartMining(address) /\ ENABLED StopMining(address)

\* C39: with a member in the pool, a worker round that has taken the lock
\* and mined its block comes to its end: the worker is back at the top of
\* its loop and mining_lock is free.
C39_WorkerRoundEnds ==
  (worker_pc = "distribute" /\ DOMAIN mining_pool # {})
     ~> (worker_pc = "sleep" /\ mining_lock = "free")

\* the output indices tried on verify: -MaxVout..MaxVout
VoutRange == (0 - MaxVout)..MaxVout

\* arguments for Transaction.verify against `utxo`: transactions paying one
\* output at time t, with no input, with one input, and with a well-formed
\* first input followed by a second one; an input names a known or an
\* unknown txid, an index in VoutRange, one of the two keys, and carries a
\* signature of that key over the txid, of the other key, over another
\* message, or none
VerifyInputs(utxo, t) ==
  LET outputs == <<[address |-> PeerAddr, amount |-> 51]>>
      bare == {[txid |-> r, vout |-> v, pubkey |-> k] :
                 r \in DOMAIN utxo \cup {<<"unknown">>}, v \in VoutRange,
                 k \in {PeerKey, LocalKey}}
      other(k) == IF k = PeerKey THEN LocalKey ELSE PeerKey
      sigs(k, id) == {Sign(k, id), Sign(other(k), id), Sign(k, <<"other">>), BadSig}
      signed(b, sig) == [txid |-> b.txid, vout |-> b.vout, pubkey |-> b.pubkey, signature |-> sig]
      unsigned(bs) == [i \in 1..Len(bs) |-> signed(bs[i], BadSig)]
      one == UNION {{Transaction(<<signed(b, sig)>>, outputs, t) :
                       sig \in sigs(b.pubkey, tx_calculate_hash(unsigned(<<b>>), outputs, t))} :
                    b \in bare}
      two == UNION {{Transaction(<<signed(a, Sign(a.pubkey, tx_calculate_hash(unsigned(<<a, b>>), outputs, t))),
                                   signed(b, sig)>>, outputs, t) :
                       sig \in {Sign(b.pubkey, tx_calculate_hash(unsigned(<<a, b>>), outputs, t)), BadSig}} :
                    a \in {x \in bare : x.vout = 0 /\ x.txid \in DOMAIN utxo}, b \in bare}
  IN {Transaction(<<>>, outputs, t)} \cup one \cup two

\* what the contract of verify asks of one input
InputVerifies(tx, utxo, i) ==
  LET inp == tx.inputs[i]
  IN /\ inp.txid \in DOMAIN utxo
     /\ inp.vout \in 0..(Len(utxo[inp.txid]) - 1)
     /\ utxo[inp.txid][inp.vout + 1] # Spent
     /\ pubkey_to_address(inp.pubkey) = utxo[inp.txid][inp.vout + 1].address
     /\ ecdsa_verify(inp.pubkey, inp.signature,
                     tx_calculate_hash(tx.inputs, tx.outputs, tx.timestamp))

\* C32: verify returns True when every input names a txid and an output
\* index that exist in the UTXO set and are not spent, carries the key of
\* the output's address and a signature of that key over the recomputed
\* txid, and returns False otherwise; a transaction without inputs verifies;
\* an input on an output that an applied block has spent fails.
C32_VerifyContract ==
  \A tx \in VerifyInputs(utxo_set, now) :
    VerifyFrom(tx, utxo_set, 1) =
      IF \A i \in 1..Len(tx.inputs) : InputVerifies(tx, utxo_set, i) THEN "True" ELSE "False"


\* C33: every block of the chain stores the Merkle root of its own
\* transactions, and every transaction in it carries the digest of its own
\* content as txid, whether the block came by NEW_BLOCK or in a SEND_CHAIN
\* candidate.
C33_MerkleChecked ==
  \A i \in 1..Len(chain) :
    /\ chain[i].merkle_root = calculate_merkle_root(chain[i].transactions)
    /\ \A j \in 1..Len(chain[i].transactions) :
         LET tx == chain[i].transactions[j]
         IN tx.txid = tx_calculate_hash(tx.inputs, tx.outputs, tx.timestamp)


\* the sockets that connect_to_peer has opened to peer p (each with its
\* handshake written)
Opened(p) == {th \in ConnThreads : connector[th] # <<>> /\ connector[th].to = p
                                    /\ connector[th].stage = "opened"}

\* C34: the peer set never holds the node's own address and holds addresses
\* of remote peers only, one entry each; a turn of _receive_peers starts a
\* connect for the listed peer exactly when that peer is not in the peer
\* set; a connect_to_peer call for a peer that is in the peer set opens no
\* connection and writes no handshake; a peer enters the set only with a
\* connection opened to it.
C34_PeerSet ==
  /\ [](/\ Self \notin peers
        /\ peers \subseteq RemotePeers
        /\ \A p \in peers : Opened(p) # {}
        /\ \A th \in ConnThreads :
             (connector[th] # <<>> /\ connector[th].known) =>
               connector[th].stage \in {"start", "known"})
  /\ [][\A t \in Handlers :
          (pc[t] = "rp_loop" /\ local[t] # <<>> /\ local'[t] # local[t]) =>
            LET p == Head(local[t])
                started == {th \in ConnThreads : connector[th] = <<>> /\ connector'[th] # <<>>}
            IN IF p \in peers THEN started = {}
               ELSE /\ Cardinality(started) = 1
                    /\ \A th \in started : connector'[th].to = p]_vars

\* a peer list that names the node itself, a known peer and an unknown one
\* has been worked off: a call for the own address and a call for a known
\* peer have returned, and a connection was opened
C34_Witness ==
  /\ \E th \in ConnThreads : connector[th] # <<>> /\ connector[th].stage = "self"
  /\ \E th \in ConnThreads : connector[th] # <<>> /\ connector[th].stage = "known"
                              /\ connector[th].known
  /\ \E th \in ConnThreads : connector[th] # <<>> /\ connector[th].stage = "opened"
  /\ \A t \in Handlers : pc[t] = "idle"


\* C35: a chain that only the local miner has extended passes
\* is_chain_valid, at every length.
C35_OwnChainValid == is_chain_valid(chain, now)


\* transaction tx is in a block of chain ch
InChain(tx, ch) ==
  \E i \in 1..Len(ch) : \E j \in 1..Len(ch[i].transactions) : ch[i].transactions[j] = tx

\* C36: a transaction that is in the pending pool is, after any step of the
\* node, still in the pool or in a block of the chain.
C36_NoTxLost ==
  [][\A i \in 1..Len(pending_transactions) :
       \/ \E k \in 1..Len(pending_transactions') :
            pending_transactions'[k] = pending_transactions[i]
       \/ InChain(pending_transactions[i], chain')]_vars


\* C37: when mine_and_broadcast comes to its broadcast, it sends a NEW_BLOCK
\* for the block that its own call of mine_pending_transactions appended,
\* and sends nothing when that call was cancelled and appended nothing.
C37_BroadcastOwnBlock ==
  [][(pc[MinerThread] = "m_bcast" /\ pc'[MinerThread] = "idle") =>
       IF local[MinerThread] = <<>>
       THEN outbox' = outbox
       ELSE outbox' = Append(outbox, <<"NEW_BLOCK", local[MinerThread][1].hash>>)]_vars


\* C38: however the bytes on a socket are cut into reads, a read closes
\* nothing; the frames that a read of the accepting side takes off the
\* stream are answered one for one on the same socket, and a read of the
\* connecting side takes one frame off the stream and hands it on.
C38_Framing ==
  [][\A c \in Conns :
       conn_state[c] = "open" =>
         /\ conn_state'[c] = "open"
         /\ Len(conn_out'[c]) < Len(conn_out[c]) =>
              Len(conn_back'[c]) - Len(conn_back[c]) = Len(conn_out[c]) - Len(conn_out'[c])
         /\ Len(conn_back'[c]) < Len(conn_back[c]) =>
              Len(conn_back'[c]) = Len(conn_back[c]) - 1]_vars


\* C40: no step of the node makes its chain shorter, and a step that swaps
\* in a candidate chain makes the chain longer.
C40_LengthGrows ==
  [][/\ Len(chain') >= Len(chain)
     /\ \A t \in Handlers :
          (pc[t] = "rc_swap" /\ pc'[t] # "rc_swap") => Len(chain') > Len(chain)]_vars
====
